---- MODULE Spec2Model ----
(***************************************************************************)
(* LeaseWatch: the scrape / aggregate / render cycle of index.ts, the      *)
(* per-site scrapers, the DataProcessor aggregator and the field parsers.  *)
(*                                                                         *)
(* Numbers: prices and square footage are non-negative integers; a         *)
(* pricePerSqFt is kept in hundredths (1.71 is 171), which is exactly the  *)
(* set of values Math.round(x * 100) / 100 can produce.  The JavaScript    *)
(* values NaN, Infinity and -Infinity are the integers NaN, PosInf and     *)
(* NegInf below, which lie outside the range of every modelled number.     *)
(***************************************************************************)
EXTENDS Integers, Sequences, FiniteSets, TLC

\* ---------------------------------------------------------------- bounds
MaxSitePlans == 1      \* floor plans one site's page yields in a run
MaxPrice     == 2      \* the positive price parsed in a run
MaxSqFt      == 1      \* the positive square footage parsed in a run
MaxLen       == 3      \* length of a floor-plan list given to the Aggregator
MaxRate      == 2      \* greatest price and pricePerSqFt given to the Aggregator
MaxDay       == 1      \* days the clock may advance between Aggregator calls
MaxBedrooms  == 5      \* greatest bedroom count given to createPropertySummary
MaxRenderLen == 3      \* floor plans of a report given to the ReportGenerator
MaxSelectors == 3      \* length of the possibleSelectors list
MaxMatches   == 2      \* elements a locator finds on the page
MaxElementPlans == 2   \* floor plans the Drift extractor reads of one element
MaxRequests  == 3      \* requests the HTTP server receives
MaxText      == 4      \* length of a text given to parsePrice
MaxCalcPrice == 6      \* greatest small price given to calculatePricePerSqFt
MaxCalcSqFt  == 6      \* greatest small square footage given to it
MaxNameWords == 2      \* words of a plan name given to determineUnitType
MaxWords     == 3      \* words of a text given to standardizeAvailability
MaxStoreLen  == 1      \* floor plans of a report given to saveDailyReport
MaxStoreCalls == 3     \* calls made to the StorageService
MaxRegions   == 2      \* region buttons of the interactive map
MaxPins      == 2      \* available-unit pins of one region

NaN    == -1
PosInf == -2
NegInf == -3

VARIABLES
    \* --- one run of an entry point (index.ts)
    entry,            \* which index.ts is run: "index" (three sites) or "indexPerimeter"
    pc,               \* main's position
    cur,              \* index in SiteOrder of the scraper main is at
    calls,            \* scrapers invoked so far, in order
    allFloorPlans,    \* main's allFloorPlans
    scrapingResults,  \* main's scrapingResults
    dailyReport,      \* main's dailyReport, NoReport until built
    exitCode,         \* -1 while running, then the process exit code
    topLevelError,    \* an error reached main's outer catch
    pricesFile,       \* content of data/prices.json
    \* --- the scrapers
    spc,              \* per scraper: the operation it is at
    browser,          \* per scraper: state of its browser session
    ret,              \* per scraper: the value its return statement set
    settle,           \* per scraper: state of its promise
    caught,           \* per scraper: the catch block that logged an error, if any
    \* --- Aggregator calls
    aggInput,         \* the floor-plan list handed to the Aggregator
    aggInput0,        \* that list as it was before the first call
    today,            \* the clock: current UTC day
    summary1, summary2, report1, report2,  \* results of the 1st and 2nd call
    aggPc,            \* which Aggregator calls were made
    \* --- field parsers
    text,             \* the text handed to parsePrice
    price,            \* the value parsePrice returned, NotCalled before the call
    fieldCall,        \* the field-parser call made: function and arguments
    fieldResult,      \* what that call returned, NoResult before it
    \* --- StorageService (data/prices.json itself is pricesFile above)
    dataDir,          \* the data directory: "missing" or "exists"
    storeOp,          \* the StorageService call in progress and its position
    storeSettle,      \* how the last call settled, and with what value
    storeLogged,      \* whether the last call logged an error
    lastSaved,        \* the report of the last save, NoReport if it failed
    storeCalls,       \* the calls made to the service, in order
    \* --- extractPerimeterFloorPlans
    ppc,              \* the extractor's position
    regions,          \* number of region buttons found
    pins,             \* number of unit pins found in each region, 0 if none
    regionIndex,      \* the region loop's index, from 0
    unitIndex,        \* the pin loop's index, from 0
    allUnits,         \* the extractor's allUnits
    visited,          \* the pins whose handling was started
    failed,           \* the pins whose handling threw
    pinLog,           \* what the catch blocks logged
    pinRet,           \* the list returned, NotReturned before the return
    \* --- ReportGenerator (the floor-plan list is aggInput above)
    properties,       \* the properties list handed to the ReportGenerator
    properties0,      \* that list as it was handed over
    listing,          \* the floor plans as generateDailyReport lists them
    ranking,          \* the properties as generateComparisonReport ranks them
    \* --- extractColumnsFloorPlans / extractDriftFloorPlans
    probeSite,        \* the extractor probing: columns or drift
    matches,          \* the number of elements each candidate selector matches
    probePc,          \* the extractor's position
    queried,          \* the selectors queried so far, in order
    usedSelector,     \* the selector whose elements are processed, 0 if none
    elemIndex,        \* the element loop's index, from 0
    records,          \* the records pushed, each with its selector and element
    probeRet,         \* the list returned, NotReturned before the return
    \* --- the HTTP server
    serverUp,         \* whether the server process is running
    cycle,            \* the position of the run of main each request started
    responses         \* the status codes written to each request

runVars     == <<entry, pc, cur, calls, allFloorPlans, scrapingResults,
                 dailyReport, exitCode, topLevelError, pricesFile>>
scraperVars == <<spc, browser, ret, settle, caught>>
aggVars     == <<aggInput, aggInput0, today, summary1, summary2, report1,
                 report2, aggPc>>
parseVars   == <<text, price>>
fieldVars   == <<fieldCall, fieldResult>>
storeVars   == <<dataDir, storeOp, storeSettle, storeLogged, lastSaved,
                 storeCalls>>
pinVars     == <<ppc, regions, pins, regionIndex, unitIndex, allUnits, visited,
                 failed, pinLog, pinRet>>
renderVars  == <<properties, properties0, listing, ranking>>
probeVars   == <<probeSite, matches, probePc, queried, usedSelector,
                 elemIndex, records, probeRet>>
serverVars  == <<serverUp, cycle, responses>>
laterVars   == <<renderVars, probeVars, serverVars>>
otherVars   == <<fieldVars, storeVars, pinVars, laterVars>>
vars        == <<runVars, scraperVars, aggVars, parseVars, fieldVars,
                 storeVars, pinVars, renderVars, probeVars, serverVars>>

NoReport  == [date |-> -1]
NotCalled == [whole |-> -10, frac |-> <<>>]
NoResult  == [returned |-> FALSE]
NoCall    == [call |-> "none"]
NotReturned == <<"pending">>

\* ------------------------------------------------------------ utilities
Min(a, b) == IF a <= b THEN a ELSE b
Max(a, b) == IF a >= b THEN a ELSE b

RECURSIVE SumSeq(_)
SumSeq(s) == IF s = <<>> THEN 0 ELSE Head(s) + SumSeq(Tail(s))

RECURSIVE FilterPositive(_)
\* .filter(p => p > 0)
FilterPositive(s) ==
    IF s = <<>> THEN <<>>
    ELSE IF Head(s) > 0 THEN <<Head(s)>> \o FilterPositive(Tail(s))
         ELSE FilterPositive(Tail(s))

\* Math.round(n / d) for n >= 0, d > 0: the nearest integer, halves upwards
RoundDiv(n, d) == (2 * n + d) \div (2 * d)

SeqsUpTo(S, n) == UNION {[1..k -> S] : k \in 0..n}

\* least element of a non-empty set of indices
First(S) == CHOOSE i \in S : \A j \in S : i <= j

\* ------------------------------------------------- DataProcessor: Aggregator
\* fp.availability.includes('Available') || fp.availability.includes('/')
\* on the availability texts the model uses.
CountsAsAvailable(a) ==
    a \in {"Available", "Available Now", "Available 01/15/2026", "01/15/2026"}

\* floorPlans.map(fp => fp.price) and .map(fp => fp.pricePerSqFt)
PricesOf(fps) == [i \in 1..Len(fps) |-> fps[i].price]
RatesOf(fps)  == [i \in 1..Len(fps) |-> fps[i].pricePerSqFt]

\* (variant: the prices without the filter)
PositivePricesUnfiltered(fps) == PricesOf(fps)
\* prices / pricesPerSqFt: the mapped values filtered by p > 0
PositivePrices(fps) == FilterPositive(PricesOf(fps))
PositiveRates(fps)  == FilterPositive(RatesOf(fps))

RECURSIVE MinOfSeq(_)
\* Math.min(...s): Infinity for no arguments
MinOfSeq(s) ==
    IF s = <<>> THEN PosInf
    ELSE IF Tail(s) = <<>> THEN Head(s)
    ELSE Min(Head(s), MinOfSeq(Tail(s)))

RECURSIVE MaxOfSeq(_)
\* Math.max(...s): -Infinity for no arguments
MaxOfSeq(s) ==
    IF s = <<>> THEN NegInf
    ELSE IF Tail(s) = <<>> THEN Head(s)
    ELSE Max(Head(s), MaxOfSeq(Tail(s)))

\* Math.round(sum / length) of a list of non-negative numbers; 0 / 0 is NaN
RoundedMean(s) == IF s = <<>> THEN NaN ELSE RoundDiv(SumSeq(s), Len(s))

\* (variant: a switch without the default branch, 4 alone being fourPlusBed)
BedroomBucketNoDefault(b) ==
    CASE b = 0 -> "studio"
      [] b = 1 -> "oneBed"
      [] b = 2 -> "twoBed"
      [] b = 3 -> "threeBed"
      [] b = 4 -> "fourPlusBed"
      [] OTHER -> "none"
\* the switch of the bedroom histogram
BedroomBucket(b) ==
    CASE b = 0 -> "studio"
      [] b = 1 -> "oneBed"
      [] b = 2 -> "twoBed"
      [] b = 3 -> "threeBed"
      [] OTHER -> "fourPlusBed"

BedroomCounts(fps) ==
    [k \in {"studio", "oneBed", "twoBed", "threeBed", "fourPlusBed"} |->
        Cardinality({i \in 1..Len(fps) : BedroomBucket(fps[i].bedrooms) = k})]

createPropertySummary(propertyName, fps) ==
    [propertyName        |-> propertyName,
     totalFloorPlans     |-> Len(fps),
     priceRange          |-> [min |-> MinOfSeq(PositivePrices(fps)),
                              max |-> MaxOfSeq(PositivePrices(fps))],
     avgPricePerSqFt     |-> RoundedMean(PositiveRates(fps)),
     bedroomDistribution |-> BedroomCounts(fps),
     availableUnits      |-> Cardinality({i \in 1..Len(fps) :
                                 CountsAsAvailable(fps[i].availability)})]

\* (variant: a cheapest reducer without the zero checks)
CheapestStepAnyPrice(min, fp) == IF fp.price < min.price THEN fp ELSE min
\* the three reducers of createDailyReport: (accumulator, current) -> accumulator
CheapestStep(min, fp) ==
    IF fp.price > 0 /\ (min.price = 0 \/ fp.price < min.price) THEN fp ELSE min

\* (variant: a most-expensive reducer that lets a later equal price win)
MostExpensiveStepLast(max, fp) == IF fp.price >= max.price THEN fp ELSE max
MostExpensiveStep(max, fp) == IF fp.price > max.price THEN fp ELSE max

BestValueStep(best, fp) ==
    IF fp.pricePerSqFt > 0
         /\ (best.pricePerSqFt = 0 \/ fp.pricePerSqFt < best.pricePerSqFt)
    THEN fp ELSE best

RECURSIVE CheapestFrom(_, _)
RECURSIVE MostExpensiveFrom(_, _)
RECURSIVE BestValueFrom(_, _)
\* Array.prototype.reduce: the reducer applied to the accumulator and each
\* remaining element in list order
CheapestFrom(acc, s) ==
    IF s = <<>> THEN acc ELSE CheapestFrom(CheapestStep(acc, Head(s)), Tail(s))
MostExpensiveFrom(acc, s) ==
    IF s = <<>> THEN acc
    ELSE MostExpensiveFrom(MostExpensiveStep(acc, Head(s)), Tail(s))
BestValueFrom(acc, s) ==
    IF s = <<>> THEN acc ELSE BestValueFrom(BestValueStep(acc, Head(s)), Tail(s))

\* reduce has no initial value: the first element is the first accumulator
\* (the list is not empty; on an empty one JavaScript throws).  date is
\* new Date().toISOString().split('T')[0] at the time of the call.
createDailyReport(propertySummaries, fps, now) ==
    [date          |-> now,
     properties    |-> propertySummaries,
     allFloorPlans |-> fps,
     marketSummary |->
        [totalUnits        |-> Len(fps),
         avgRent           |-> RoundedMean(PositivePrices(fps)),
         avgPricePerSqFt   |-> RoundedMean(PositiveRates(fps)),
         cheapestUnit      |-> CheapestFrom(Head(fps), Tail(fps)),
         mostExpensiveUnit |-> MostExpensiveFrom(Head(fps), Tail(fps)),
         bestValueUnit     |-> BestValueFrom(Head(fps), Tail(fps))]]

RECURSIVE InsertByPrice(_, _)
\* position of fp in a list sorted by (a, b) => a.price - b.price, stable
InsertByPrice(fp, sorted) ==
    IF sorted = <<>> THEN <<fp>>
    ELSE IF fp.price < Head(sorted).price THEN <<fp>> \o sorted
    ELSE <<Head(sorted)>> \o InsertByPrice(fp, Tail(sorted))

RECURSIVE SortByPrice(_)
\* Array.prototype.sort((a, b) => a.price - b.price), which is stable
SortByPrice(fps) ==
    IF fps = <<>> THEN <<>>
    ELSE InsertByPrice(fps[Len(fps)], SortByPrice(SubSeq(fps, 1, Len(fps) - 1)))

\* (variant: the array sorted in place by the call)
InputAfterAggregateSorted(fps) == SortByPrice(fps)
\* The array passed to createPropertySummary / createDailyReport as it is
\* after the call: both only read it (map, filter, reduce, length).
InputAfterAggregate(fps) == fps

\* ----------------------------------------------- Aggregator: the call harness
AggProperty == "Camden Dunwoody"

FloorPlan(name, p, sqft, rate, beds, avail, prop) ==
    [name |-> name, price |-> p, bedrooms |-> beds, squareFootage |-> sqft,
     pricePerSqFt |-> rate, availability |-> avail, propertyName |-> prop]

\* a list of floor plans, the i-th named i, with the prices and the
\* pricePerSqFt (hundredths) that f gives
AggList(k, f) ==
    [i \in 1..k |-> FloorPlan(i, f[i][1], 1, f[i][2], 1, "Available Now",
                              AggProperty)]

\* the prices and rates of the lists handed to the Aggregator
AggPrices == 0..MaxRate
AggRates  == {0, 1, MaxRate}

NoSummary == [propertyName |-> "none"]

InitRunIdle ==
    /\ entry = "none" /\ pc = "idle" /\ cur = 0 /\ calls = <<>>
    /\ allFloorPlans = <<>> /\ scrapingResults = <<>>
    /\ dailyReport = NoReport /\ exitCode = -1 /\ topLevelError = FALSE
    /\ pricesFile = NoReport
    /\ spc = <<>> /\ browser = <<>> /\ ret = <<>> /\ settle = <<>>
    /\ caught = <<>>

InitAggIdle ==
    /\ aggInput = <<>> /\ aggInput0 = <<>> /\ today = 0
    /\ summary1 = NoSummary /\ summary2 = NoSummary
    /\ report1 = NoReport /\ report2 = NoReport /\ aggPc = "idle"

InitParseIdle ==
    /\ text = <<>> /\ price = NotCalled

InitFieldsIdle ==
    /\ fieldCall = [fn |-> "none"] /\ fieldResult = NoResult

InitStoreIdle ==
    /\ dataDir = "missing" /\ storeOp = NoCall /\ storeSettle = NoCall
    /\ storeLogged = FALSE /\ lastSaved = NoReport /\ storeCalls = <<>>

InitPinsIdle ==
    /\ ppc = "idle" /\ regions = 0 /\ pins = <<>> /\ regionIndex = 0
    /\ unitIndex = 0 /\ allUnits = <<>> /\ visited = {} /\ failed = {}
    /\ pinLog = {} /\ pinRet = NotReturned

InitRenderIdle ==
    /\ properties = <<>> /\ properties0 = <<>> /\ listing = <<>>
    /\ ranking = <<>>

InitProbeIdle ==
    /\ probeSite = "none" /\ matches = <<>> /\ probePc = "idle"
    /\ queried = <<>> /\ usedSelector = 0 /\ elemIndex = 0 /\ records = <<>>
    /\ probeRet = NotReturned

InitServerIdle ==
    /\ serverUp = FALSE /\ cycle = <<>> /\ responses = <<>>

InitAgg ==
    /\ InitRunIdle /\ InitParseIdle /\ InitFieldsIdle /\ InitStoreIdle
    /\ InitPinsIdle
    /\ InitRenderIdle /\ InitProbeIdle /\ InitServerIdle
    /\ \E k \in 1..MaxLen : \E f \in [1..k -> AggPrices \X AggRates] :
          aggInput = AggList(k, f)
    /\ aggInput0 = aggInput
    /\ today = 0
    /\ summary1 = NoSummary /\ summary2 = NoSummary
    /\ report1 = NoReport /\ report2 = NoReport
    /\ aggPc = "init"

\* the clock moves on between (never during) the synchronous calls
AggTick ==
    /\ aggPc \in {"init", "first", "between"}
    /\ today < MaxDay
    /\ today' = today + 1
    /\ UNCHANGED <<aggInput, aggInput0, summary1, summary2, report1, report2,
                   aggPc, runVars, scraperVars, parseVars, otherVars>>

\* first run of the Aggregator on the list
AggCall1 ==
    /\ aggPc = "init"
    /\ summary1' = createPropertySummary(AggProperty, aggInput)
    /\ report1' = createDailyReport(<<summary1'>>, aggInput, today)
    /\ aggInput' = InputAfterAggregate(aggInput)
    /\ aggPc' = "first"
    /\ UNCHANGED <<aggInput0, today, summary2, report2, runVars, scraperVars,
                   parseVars, otherVars>>

\* a run of the Aggregator on some other list, made in between
AggCallBetween ==
    /\ aggPc = "first"
    /\ LET other == Tail(aggInput) \o <<Head(aggInput)>>
       IN /\ summary2' = createPropertySummary("The Columns at Lake Ridge", other)
          /\ report2' = createDailyReport(<<summary2'>>, other, today)
    /\ aggPc' = "between"
    /\ UNCHANGED <<aggInput, aggInput0, today, summary1, report1, runVars,
                   scraperVars, parseVars, otherVars>>

\* second run of the Aggregator on the same list
AggCall2 ==
    /\ aggPc \in {"first", "between"}
    /\ summary2' = createPropertySummary(AggProperty, aggInput)
    /\ report2' = createDailyReport(<<summary2'>>, aggInput, today)
    /\ aggInput' = InputAfterAggregate(aggInput)
    /\ aggPc' = "second"
    /\ UNCHANGED <<aggInput0, today, summary1, report1, runVars, scraperVars,
                   parseVars, otherVars>>

NextAgg == AggTick \/ AggCall1 \/ AggCallBetween \/ AggCall2

SpecAgg == InitAgg /\ [][NextAgg]_vars

\* ------------------------------------------------------ Aggregator: claims
PositivePriceSet(fps) == {fps[i].price : i \in {j \in 1..Len(fps) : fps[j].price > 0}}
PositiveRateSet(fps) ==
    {fps[i].pricePerSqFt : i \in {j \in 1..Len(fps) : fps[j].pricePerSqFt > 0}}

\* C6: in the DailyReport of a non-empty list, cheapestUnit.price is at most
\* every positive price and bestValueUnit.pricePerSqFt at most every positive
\* pricePerSqFt, and the selected unit is itself positive whenever a positive
\* value exists, wherever the zero-valued plans sit in the list.
C6_CheapestAndBestValue ==
    aggPc \in {"first", "between", "second"} =>
        LET m == report1.marketSummary
        IN /\ \A p \in PositivePriceSet(aggInput0) : m.cheapestUnit.price <= p
           /\ \A r \in PositiveRateSet(aggInput0) :
                  m.bestValueUnit.pricePerSqFt <= r
           /\ PositivePriceSet(aggInput0) # {} => m.cheapestUnit.price > 0
           /\ PositiveRateSet(aggInput0) # {} => m.bestValueUnit.pricePerSqFt > 0

\* a report was built from a list that starts with a zero-price, zero-rate
\* plan, has a zero-price plan after a positive one, and two distinct
\* positive prices
C6_Witness ==
    /\ aggPc = "first"
    /\ Len(aggInput0) = 3
    /\ aggInput0[1].price = 0 /\ aggInput0[1].pricePerSqFt = 0
    /\ aggInput0[2].price = 2 /\ aggInput0[2].pricePerSqFt = 1
    /\ aggInput0[3].price = 1 /\ aggInput0[3].pricePerSqFt = 0
    /\ report1.marketSummary.cheapestUnit.name = 3
    /\ report1.marketSummary.bestValueUnit.name = 2

\* C7: with at least one positive price, priceRange.min <= priceRange.max,
\* min and max are the least and the greatest of the positive prices, and
\* totalFloorPlans counts every plan, zero-price ones included.
C7_PriceRange ==
    (aggPc \in {"first", "between", "second"}
        /\ PositivePriceSet(aggInput0) # {}) =>
        LET pos == PositivePriceSet(aggInput0)
            rng == summary1.priceRange
        IN /\ rng.min <= rng.max
           /\ rng.min \in pos /\ \A p \in pos : rng.min <= p
           /\ rng.max \in pos /\ \A p \in pos : rng.max >= p
           /\ summary1.totalFloorPlans = Len(aggInput0)

\* a summary was built from a list with a zero-price plan and two distinct
\* positive prices
C7_Witness ==
    /\ aggPc = "first"
    /\ \E i, j, k \in 1..Len(aggInput0) :
          /\ aggInput0[i].price = 0
          /\ aggInput0[j].price > 0
          /\ aggInput0[k].price > aggInput0[j].price
    /\ summary1.priceRange.min < summary1.priceRange.max
    /\ summary1.totalFloorPlans = 3

AtPrice(fps, v) == {i \in 1..Len(fps) : fps[i].price = v}
AtRate(fps, v)  == {i \in 1..Len(fps) : fps[i].pricePerSqFt = v}

\* C19: among several plans with the least positive price cheapestUnit is
\* the earliest in list order, among several with the greatest price
\* mostExpensiveUnit is the earliest, and among several with the least
\* positive pricePerSqFt bestValueUnit is the earliest.
C19_FirstOccurrenceWins ==
    aggPc \in {"first", "between", "second"} =>
        LET fps   == aggInput0
            m     == report1.marketSummary
            pos   == PositivePriceSet(fps)
            rates == PositiveRateSet(fps)
            top   == CHOOSE v \in {fps[i].price : i \in 1..Len(fps)} :
                         \A i \in 1..Len(fps) : fps[i].price <= v
        IN /\ pos # {} =>
                 LET low == CHOOSE v \in pos : \A w \in pos : v <= w
                 IN m.cheapestUnit = fps[First(AtPrice(fps, low))]
           /\ m.mostExpensiveUnit = fps[First(AtPrice(fps, top))]
           /\ rates # {} =>
                 LET low == CHOOSE v \in rates : \A w \in rates : v <= w
                 IN m.bestValueUnit = fps[First(AtRate(fps, low))]

\* a report was built from a list in which the second and the third plan
\* share the least positive price, the greatest price and the least positive
\* pricePerSqFt, and all three units selected are the second plan
C19_Witness ==
    /\ aggPc = "first"
    /\ Len(aggInput0) = 3
    /\ aggInput0[1].price = 0 /\ aggInput0[1].pricePerSqFt = 0
    /\ aggInput0[2].price = 1 /\ aggInput0[2].pricePerSqFt = 1
    /\ aggInput0[3].price = 1 /\ aggInput0[3].pricePerSqFt = 1
    /\ report1.marketSummary.cheapestUnit.name = 2
    /\ report1.marketSummary.mostExpensiveUnit.name = 2
    /\ report1.marketSummary.bestValueUnit.name = 2

\* a finite number, neither NaN nor an infinity
Finite(n) == n # NaN /\ n # PosInf /\ n # NegInf

\* C27: for every non-empty list the numbers the Aggregator computes are
\* finite: priceRange.min, priceRange.max and avgPricePerSqFt of the
\* property summary, avgRent and avgPricePerSqFt of the daily report, also
\* when no plan has a positive price or a positive pricePerSqFt.
C27_AggregatesFinite ==
    aggPc \in {"first", "between", "second"} =>
        /\ Finite(summary1.priceRange.min)
        /\ Finite(summary1.priceRange.max)
        /\ Finite(summary1.avgPricePerSqFt)
        /\ Finite(report1.marketSummary.avgRent)
        /\ Finite(report1.marketSummary.avgPricePerSqFt)

\* ------------------------------------- Aggregator: the bedroom histogram
\* lists whose plans differ in the bedroom count alone
BedroomList(k, beds) ==
    [i \in 1..k |-> FloorPlan(i, 1, 1, 1, beds[i], "Available Now",
                              AggProperty)]

InitBedrooms ==
    /\ InitRunIdle /\ InitParseIdle /\ InitFieldsIdle /\ InitStoreIdle
    /\ InitPinsIdle
    /\ InitRenderIdle /\ InitProbeIdle /\ InitServerIdle
    /\ \E k \in 0..MaxLen : \E beds \in [1..k -> 0..MaxBedrooms] :
          aggInput = BedroomList(k, beds)
    /\ aggInput0 = aggInput
    /\ today = 0
    /\ summary1 = NoSummary /\ summary2 = NoSummary
    /\ report1 = NoReport /\ report2 = NoReport
    /\ aggPc = "init"

\* createPropertySummary is called on the list
SummaryCall ==
    /\ aggPc = "init"
    /\ summary1' = createPropertySummary(AggProperty, aggInput)
    /\ aggInput' = InputAfterAggregate(aggInput)
    /\ aggPc' = "summary"
    /\ UNCHANGED <<aggInput0, today, summary2, report1, report2, runVars,
                   scraperVars, parseVars, otherVars>>

NextBedrooms == SummaryCall

SpecBedrooms == InitBedrooms /\ [][NextBedrooms]_vars

\* the plans of fps with b bedrooms
WithBedrooms(fps, b) == Cardinality({i \in 1..Len(fps) : fps[i].bedrooms = b})

\* C30: createPropertySummary counts each floor plan in exactly one bedroom
\* bucket (0 studio, 1 oneBed, 2 twoBed, 3 threeBed, 4 or more
\* fourPlusBed), so the five buckets add up to totalFloorPlans.
C30_BedroomBuckets ==
    aggPc = "summary" =>
        LET d == summary1.bedroomDistribution
        IN /\ d.studio = WithBedrooms(aggInput0, 0)
           /\ d.oneBed = WithBedrooms(aggInput0, 1)
           /\ d.twoBed = WithBedrooms(aggInput0, 2)
           /\ d.threeBed = WithBedrooms(aggInput0, 3)
           /\ d.fourPlusBed = Cardinality({i \in 1..Len(aggInput0) :
                                              aggInput0[i].bedrooms >= 4})
           /\ d.studio + d.oneBed + d.twoBed + d.threeBed + d.fourPlusBed
                 = summary1.totalFloorPlans
           /\ summary1.totalFloorPlans = Len(aggInput0)

\* a summary was made of a list with a studio, a four-bedroom and a
\* five-bedroom plan: one studio and two plans in fourPlusBed
C30_Witness ==
    /\ aggPc = "summary"
    /\ Len(aggInput0) = 3
    /\ aggInput0[1].bedrooms = 0
    /\ aggInput0[2].bedrooms = 4
    /\ aggInput0[3].bedrooms = 5
    /\ summary1.bedroomDistribution.studio = 1
    /\ summary1.bedroomDistribution.fourPlusBed = 2
    /\ summary1.totalFloorPlans = 3

\* ------------------------------------------------ DataProcessor: parsePrice
\* A text is a sequence of one-character strings.  A parsed number is
\* [whole, frac]: the integer part and the fraction digits without trailing
\* zeros (1.5 is [whole |-> 1, frac |-> <<5>>]); NaN and Infinity are
\* [whole |-> NaN] and [whole |-> PosInf] with an empty fraction.
Digits == {"0", "1", "2", "3", "4", "5", "6", "7", "8", "9"}

DigitVal(c) ==
    CASE c = "0" -> 0 [] c = "1" -> 1 [] c = "2" -> 2 [] c = "3" -> 3
      [] c = "4" -> 4 [] c = "5" -> 5 [] c = "6" -> 6 [] c = "7" -> 7
      [] c = "8" -> 8 [] c = "9" -> 9

Num(w, f) == [whole |-> w, frac |-> f]
Whole(n)    == Num(n, <<>>)

IsDigitAt(s, i) == i >= 1 /\ i <= Len(s) /\ s[i] \in Digits
IsCharAt(s, i, c) == i >= 1 /\ i <= Len(s) /\ s[i] = c

\* the character class [0-9,.]
IsPriceChar(c) == c \in Digits \cup {",", "."}

\* (variant: a strip that keeps the dash as well)
IsPriceCharOrDash(c) == c \in Digits \cup {",", ".", "-"}
CleanPriceKeepDash(t) == SelectSeq(t, IsPriceCharOrDash)
\* priceString.replace(/[^0-9,.]/g, '')
CleanPrice(t) == SelectSeq(t, IsPriceChar)

NotComma(c) == c # ","
\* p.replace(/,/g, '')
RemoveCommas(s) == SelectSeq(s, NotComma)

\* last index of the run of digits that starts at the digit s[i]
DigitRunEnd(s, i) ==
    CHOOSE j \in i..Len(s) :
        /\ \A k \in i..j : s[k] \in Digits
        /\ ~IsDigitAt(s, j + 1)

RECURSIVE GroupsEnd(_, _)
\* (?:,\d+)* after a match ending at j: last index after the repetitions
GroupsEnd(s, j) ==
    IF IsCharAt(s, j + 1, ",") /\ IsDigitAt(s, j + 2)
    THEN GroupsEnd(s, DigitRunEnd(s, j + 2))
    ELSE j

\* (?:\.\d+)? after a match ending at j
FractionEnd(s, j) ==
    IF IsCharAt(s, j + 1, ".") /\ IsDigitAt(s, j + 2)
    THEN DigitRunEnd(s, j + 2)
    ELSE j

HasDigit(s) == \E i \in 1..Len(s) : s[i] \in Digits

\* s.match(/(\d+(?:,\d+)*(?:\.\d+)?)/)[1] for a text with a digit: the
\* leftmost match starts at the first digit and is greedy
MatchNumber(s) ==
    LET i == CHOOSE k \in 1..Len(s) :
                 s[k] \in Digits /\ \A m \in 1..(k - 1) : s[m] \notin Digits
    IN SubSeq(s, i, FractionEnd(s, GroupsEnd(s, DigitRunEnd(s, i))))

RECURSIVE DigitsValue(_)
\* value of a sequence of digits
DigitsValue(d) ==
    IF d = <<>> THEN 0
    ELSE 10 * DigitsValue(SubSeq(d, 1, Len(d) - 1)) + DigitVal(d[Len(d)])

RECURSIVE StripTrailingZeros(_)
StripTrailingZeros(f) ==
    IF f # <<>> /\ f[Len(f)] = 0
    THEN StripTrailingZeros(SubSeq(f, 1, Len(f) - 1))
    ELSE f

FractionOf(d) == StripTrailingZeros([i \in 1..Len(d) |-> DigitVal(d[i])])

\* parseFloat on a text of digits and periods: the longest prefix of the
\* form digits [. [digits]] or . digits; NaN when there is none
ParseFloat(s) ==
    IF IsDigitAt(s, 1)
    THEN LET e == DigitRunEnd(s, 1)
         IN IF IsCharAt(s, e + 1, ".") /\ IsDigitAt(s, e + 2)
            THEN Num(DigitsValue(SubSeq(s, 1, e)),
                     FractionOf(SubSeq(s, e + 2, DigitRunEnd(s, e + 2))))
            ELSE Whole(DigitsValue(SubSeq(s, 1, e)))
    ELSE IF IsCharAt(s, 1, ".") /\ IsDigitAt(s, 2)
    THEN Num(0, FractionOf(SubSeq(s, 2, DigitRunEnd(s, 2))))
    ELSE Whole(NaN)

\* a < b for two parsed numbers (finite and non-negative, or PosInf)
FracDigit(f, i) == IF i <= Len(f) THEN f[i] ELSE 0
NumLess(a, b) ==
    IF a.whole = PosInf THEN FALSE
    ELSE IF b.whole = PosInf THEN TRUE
    ELSE \/ a.whole < b.whole
         \/ /\ a.whole = b.whole
            /\ \E i \in 1..Max(Len(a.frac), Len(b.frac)) :
                  /\ FracDigit(a.frac, i) < FracDigit(b.frac, i)
                  /\ \A k \in 1..(i - 1) :
                        FracDigit(a.frac, k) = FracDigit(b.frac, k)

RECURSIVE SplitOnDash(_)
\* cleanPrice.split('-')
SplitOnDash(s) ==
    IF \A i \in 1..Len(s) : s[i] # "-" THEN <<s>>
    ELSE LET d == CHOOSE i \in 1..Len(s) :
                      s[i] = "-" /\ \A k \in 1..(i - 1) : s[k] # "-"
         IN <<SubSeq(s, 1, d - 1)>> \o SplitOnDash(SubSeq(s, d + 1, Len(s)))

RECURSIVE MinOfParsed(_)
\* Math.min(...prices.filter(p => !isNaN(p))) over the parsed parts
MinOfParsed(parts) ==
    IF parts = <<>> THEN Whole(PosInf)
    ELSE LET v    == ParseFloat(RemoveCommas(Head(parts)))
             rest == MinOfParsed(Tail(parts))
         IN IF v.whole = NaN THEN rest
            ELSE IF NumLess(rest, v) THEN rest ELSE v

parsePrice(priceString) ==
    IF priceString = <<>> THEN Whole(0)
    ELSE LET cleanPrice == CleanPrice(priceString)
         IN IF \E i \in 1..Len(cleanPrice) : cleanPrice[i] = "-"
            THEN MinOfParsed(SplitOnDash(cleanPrice))
            ELSE IF HasDigit(cleanPrice)
            THEN ParseFloat(RemoveCommas(MatchNumber(cleanPrice)))
            ELSE Whole(0)

\* ------------------------------------------------- parsePrice: call harness
PriceAlphabet == {"1", "5", ",", ".", "-", " ", "$", "a"}

\* "$1,583 - $1,650", "From $2,100", "Contact us", "$1.50", "$0"
RangeExample ==
    <<"$", "1", ",", "5", "8", "3", " ", "-", " ", "$", "1", ",", "6", "5", "0">>
FromExample == <<"F", "r", "o", "m", " ", "$", "2", ",", "1", "0", "0">>
ContactExample == <<"C", "o", "n", "t", "a", "c", "t", " ", "u", "s">>
CentsExample == <<"$", "1", ".", "5", "0">>
ZeroExample == <<"$", "0">>

\* amounts as they are written, with their values
Amounts ==
    {[txt |-> <<"1">>, val |-> 1], [txt |-> <<"5">>, val |-> 5],
     [txt |-> <<"1", "5">>, val |-> 15],
     [txt |-> <<"1", ",", "5", "8", "3">>, val |-> 1583],
     [txt |-> <<"1", ",", "6", "5", "0">>, val |-> 1650]}

\* the texts '$a - $b' and '$a-$b' with the lower of the two amounts
RangeCases ==
    {[text |-> <<"$">> \o a.txt \o sp \o <<"-">> \o sp \o <<"$">> \o b.txt,
      min  |-> Min(a.val, b.val)] :
        a \in Amounts, b \in Amounts, sp \in {<<>>, <<" ">>}}

PriceTexts ==
    SeqsUpTo(PriceAlphabet, MaxText)
        \cup {rc.text : rc \in RangeCases}
        \cup {RangeExample, FromExample, ContactExample, CentsExample,
              ZeroExample}

InitParse ==
    /\ InitRunIdle /\ InitAggIdle /\ InitFieldsIdle /\ InitStoreIdle
    /\ InitPinsIdle
    /\ InitRenderIdle /\ InitProbeIdle /\ InitServerIdle
    /\ text \in PriceTexts
    /\ price = NotCalled

ParsePriceCall ==
    /\ price = NotCalled
    /\ price' = parsePrice(text)
    /\ UNCHANGED <<text, runVars, scraperVars, aggVars, otherVars>>

NextParse == ParsePriceCall

SpecParse == InitParse /\ [][NextParse]_vars

\* ------------------------------------------------------ parsePrice: claims
\* C9: for a text of the form '$a - $b' (thousands separators allowed, with
\* or without spaces around the dash) parsePrice returns min(a, b); for
\* "$1,583 - $1,650" it returns 1583.
C9_RangeMinimum ==
    price # NotCalled =>
        /\ \A rc \in RangeCases : rc.text = text => price = Whole(rc.min)
        /\ text = RangeExample => price = Whole(1583)

\* the first numeric value written in a text that has a digit
FirstNumberIn(t) == ParseFloat(RemoveCommas(MatchNumber(t)))

DigitCommaPeriod(c) ==
    c \in {"0", "1", "2", "3", "4", "5", "6", "7", "8", "9", ",", "."}

SignificandBits == 53
LimbBits        == 15
LimbBase        == 32768

RECURSIVE Pow2(_)
Pow2(k) == IF k = 0 THEN 1 ELSE 2 * Pow2(k - 1)

RECURSIVE Pow10(_)
Pow10(k) == IF k = 0 THEN 1 ELSE 10 * Pow10(k - 1)

\* b without its leading zeros
StripLeadingZeros(b) ==
    IF \A i \in 1..Len(b) : b[i] = 0 THEN <<>>
    ELSE SubSeq(b, CHOOSE i \in 1..Len(b) :
                       b[i] = 1 /\ \A j \in 1..(i - 1) : b[j] = 0, Len(b))

\* the bits of the natural number n < 2^31
Binary(n) == StripLeadingZeros([i \in 1..31 |-> (n \div Pow2(31 - i)) % 2])

\* the bits of the number whose limbs are l
Bits(l) ==
    StripLeadingZeros([i \in 1..(LimbBits * Len(l)) |->
        (l[((i - 1) \div LimbBits) + 1]
            \div Pow2(LimbBits - 1 - ((i - 1) % LimbBits))) % 2])

RECURSIVE BitsValue(_)
BitsValue(b) ==
    IF b = <<>> THEN 0
    ELSE 2 * BitsValue(SubSeq(b, 1, Len(b) - 1)) + b[Len(b)]

\* the limbs of the number whose bits are b
Limbs(b) ==
    LET n   == (Len(b) + LimbBits - 1) \div LimbBits
        pad == LimbBits * n - Len(b)
        bit(i) == IF i <= pad THEN 0 ELSE b[i - pad]
    IN [j \in 1..n |->
           BitsValue([t \in 1..LimbBits |-> bit(LimbBits * (j - 1) + t)])]

RECURSIVE LimbsValue(_)
LimbsValue(l) ==
    IF l = <<>> THEN 0
    ELSE LimbBase * LimbsValue(SubSeq(l, 1, Len(l) - 1)) + l[Len(l)]

RECURSIVE DivLimbs(_, _, _)
\* long division of the limbs l by d < LimbBase, r the remainder so far
DivLimbs(l, d, r) ==
    IF l = <<>> THEN [q |-> <<>>, r |-> r]
    ELSE LET t    == LimbBase * r + Head(l)
             rest == DivLimbs(Tail(l), d, t % d)
         IN [q |-> <<t \div d>> \o rest.q, r |-> rest.r]

RECURSIVE MulLimbs(_, _, _)
\* the limbs of l * k + c for k < LimbBase
MulLimbs(l, k, c) ==
    IF l = <<>> THEN (IF c = 0 THEN <<>> ELSE <<c>>)
    ELSE LET t == l[Len(l)] * k + c
         IN Append(MulLimbs(SubSeq(l, 1, Len(l) - 1), k, t \div LimbBase),
                   t % LimbBase)

\* the bits of b + 1
Increment(b) ==
    IF \A i \in 1..Len(b) : b[i] = 1 THEN <<1>> \o [i \in 1..Len(b) |-> 0]
    ELSE LET z == CHOOSE i \in 1..Len(b) :
                      b[i] = 0 /\ \A j \in (i + 1)..Len(b) : b[j] = 1
         IN [i \in 1..Len(b) |-> IF i < z THEN b[i] ELSE IF i = z THEN 1 ELSE 0]

\* round to nearest, ties to even: b keeps its first SignificandBits bits;
\* the bits cut off, and sticky for what lies beyond them, decide
RoundToDouble(b, s, sticky) ==
    IF Len(b) <= SignificandBits THEN [m |-> b, s |-> s]
    ELSE LET cut  == Len(b) - SignificandBits
             kept == SubSeq(b, 1, SignificandBits)
             more == sticky \/ \E i \in (SignificandBits + 2)..Len(b) : b[i] = 1
             up   == b[SignificandBits + 1] = 1
                        /\ (more \/ kept[SignificandBits] = 1)
         IN [m |-> IF up THEN Increment(kept) ELSE kept, s |-> s - cut]

\* x / d for a double x and an integer 0 < d < LimbBase: the quotient is
\* taken to five limbs beyond the significand, so that more than
\* SignificandBits of its bits are known, and rounded once
DoubleDiv(x, d) ==
    LET qr == DivLimbs(Limbs(x.m) \o <<0, 0, 0, 0, 0>>, d, 0)
    IN RoundToDouble(Bits(qr.q), x.s + 5 * LimbBits, qr.r # 0)

\* x * k for a double x and an integer 0 < k < LimbBase
DoubleMul(x, k) == RoundToDouble(Bits(MulLimbs(Limbs(x.m), k, 0)), x.s, FALSE)

\* Math.round(x), as bits: the integer part, plus one when the fraction is
\* one half or more
MathRound(x) ==
    LET n    == Len(x.m) - x.s
        int  == IF n >= 1 THEN SubSeq(x.m, 1, n) ELSE <<>>
        half == n >= 0 /\ n < Len(x.m) /\ x.m[n + 1] = 1
    IN IF half THEN Increment(int) ELSE int

RECURSIVE DigitSeqValue(_)
DigitSeqValue(f) ==
    IF f = <<>> THEN 0
    ELSE 10 * DigitSeqValue(SubSeq(f, 1, Len(f) - 1)) + f[Len(f)]

\* the double of a parsed number: whole.frac is the quotient of two
\* integers, rounded once, as parseFloat rounds (for a fraction of at most
\* four digits)
ToDouble(v) ==
    IF v.frac = <<>> THEN [m |-> Binary(v.whole), s |-> 0]
    ELSE DoubleDiv([m |-> Binary(v.whole * Pow10(Len(v.frac))
                                   + DigitSeqValue(v.frac)), s |-> 0],
                   Pow10(Len(v.frac)))

\* n / 100 for an integer n given as bits, as a parsed number
Hundredths(n) ==
    LET qr == DivLimbs(Limbs(n), 100, 0)
    IN Num(LimbsValue(qr.q), StripTrailingZeros(<<qr.r \div 10, qr.r % 10>>))

\* Math.round((price / sqft) * 100) / 100
RoundedPerSqFt(p, sqft) ==
    Hundredths(MathRound(DoubleMul(DoubleDiv(ToDouble(p), sqft), 100)))

\* price > 0
Positive(v) == v.whole > 0 \/ (v.whole = 0 /\ v.frac # <<>>)

calculatePricePerSqFt(p, sqft) ==
    IF ~Positive(p) \/ sqft <= 0 THEN Whole(0)
    ELSE RoundedPerSqFt(p, sqft)

\* a number of at most two decimals, in hundredths
Cents(v) ==
    100 * v.whole + (IF Len(v.frac) >= 1 THEN 10 * v.frac[1] ELSE 0)
                  + (IF Len(v.frac) >= 2 THEN v.frac[2] ELSE 0)

\* --------------------------------------------- DataProcessor: field parsers
\* String.prototype.toLowerCase on the letters A-Z
UpperCase == <<"A", "B", "C", "D", "E", "F", "G", "H", "I", "J", "K", "L",
    "M", "N", "O", "P", "Q", "R", "S", "T", "U", "V", "W", "X", "Y", "Z">>
LowerCase == <<"a", "b", "c", "d", "e", "f", "g", "h", "i", "j", "k", "l",
    "m", "n", "o", "p", "q", "r", "s", "t", "u", "v", "w", "x", "y", "z">>
\* the texts the parsers look for and return
BedWord == <<"b", "e", "d">>
BrWord == <<"b", "r">>
BaWord == <<"b", "a">>
StudioWord == <<"s", "t", "u", "d", "i", "o">>
TownhomeWord == <<"t", "o", "w", "n", "h", "o", "m", "e">>
TownhouseWord == <<"t", "o", "w", "n", "h", "o", "u", "s", "e">>
AvailableNowLower == <<"a", "v", "a", "i", "l", "a", "b", "l", "e", " ", "n",
    "o", "w">>
AvailableLower == <<"a", "v", "a", "i", "l", "a", "b", "l", "e">>
NotSpecifiedLower == <<"n", "o", "t", " ", "s", "p", "e", "c", "i", "f", "i",
    "e", "d">>
NotAvailableLower == <<"n", "o", "t", " ", "a", "v", "a", "i", "l", "a", "b",
    "l", "e">>
ContactForAvailability == <<"C", "o", "n", "t", "a", "c", "t", " ", "f", "o",
    "r", " ", "A", "v", "a", "i", "l", "a", "b", "i", "l", "i", "t", "y">>
AvailableNow == <<"A", "v", "a", "i", "l", "a", "b", "l", "e", " ", "N", "o",
    "w">>
AvailablePrefix == <<"A", "v", "a", "i", "l", "a", "b", "l", "e", " ">>

LowerChar(c) ==
    IF \E i \in 1..26 : UpperCase[i] = c
    THEN LowerCase[CHOOSE i \in 1..26 : UpperCase[i] = c]
    ELSE c
toLowerCase(s) == [i \in 1..Len(s) |-> LowerChar(s[i])]

\* String.prototype.includes
includes(s, sub) ==
    \E i \in 1..(Len(s) - Len(sub) + 1) : SubSeq(s, i, i + Len(sub) - 1) = sub

\* sub is found in s at index i
StartsAt(s, i, sub) ==
    i >= 1 /\ i + Len(sub) - 1 <= Len(s) /\ SubSeq(s, i, i + Len(sub) - 1) = sub

\* \s*: the first index from i on that does not hold white space
AfterSpaces(s, i) ==
    CHOOSE j \in i..(Len(s) + 1) :
        /\ \A k \in i..(j - 1) : s[k] = " "
        /\ ~IsCharAt(s, j, " ")

\* /(\d+)\s*(beds?|bedrooms?|br)/i matches from the digit s[i]: the greedy
\* run of digits, white space, then a word that starts like an alternative
BedroomsMatchAt(s, i) ==
    /\ IsDigitAt(s, i)
    /\ LET j == AfterSpaces(s, DigitRunEnd(s, i) + 1)
       IN \/ StartsAt(toLowerCase(s), j, BedWord)
          \/ StartsAt(toLowerCase(s), j, BrWord)

parseBedrooms(bedroomString) ==
    IF bedroomString = <<>> THEN 0
    ELSE IF includes(toLowerCase(bedroomString), StudioWord) THEN 0
    ELSE LET at == {i \in 1..Len(bedroomString) :
                       BedroomsMatchAt(bedroomString, i)}
         IN IF at = {} THEN 0
            ELSE DigitsValue(SubSeq(bedroomString, First(at),
                                    DigitRunEnd(bedroomString, First(at))))

\* /(\d+\.5)\s*(baths?|bathrooms?|ba)/i matches from the digit s[i]
DecimalBathroomsMatchAt(s, i) ==
    /\ IsDigitAt(s, i)
    /\ LET e == DigitRunEnd(s, i)
       IN /\ IsCharAt(s, e + 1, ".") /\ IsCharAt(s, e + 2, "5")
          /\ StartsAt(toLowerCase(s), AfterSpaces(s, e + 3), BaWord)

\* /(\d+)\s*(baths?|bathrooms?|ba)/i matches from the digit s[i]
WholeBathroomsMatchAt(s, i) ==
    /\ IsDigitAt(s, i)
    /\ StartsAt(toLowerCase(s), AfterSpaces(s, DigitRunEnd(s, i) + 1), BaWord)

parseBathrooms(bathroomString) ==
    LET s       == bathroomString
        decimal == {i \in 1..Len(s) : DecimalBathroomsMatchAt(s, i)}
        whole   == {i \in 1..Len(s) : WholeBathroomsMatchAt(s, i)}
    IN IF s = <<>> THEN Whole(0)
       ELSE IF decimal # {}
       THEN Num(DigitsValue(SubSeq(s, First(decimal),
                                   DigitRunEnd(s, First(decimal)))), <<5>>)
       ELSE IF whole # {}
       THEN Whole(DigitsValue(SubSeq(s, First(whole),
                                     DigitRunEnd(s, First(whole)))))
       ELSE Whole(0)

\* sqftString.match(/(\d+(?:,\d+)*)/), commas removed, parseInt
parseSquareFootage(sqftString) ==
    IF sqftString = <<>> \/ ~HasDigit(sqftString) THEN 0
    ELSE LET i == First({k \in 1..Len(sqftString) : sqftString[k] \in Digits})
         IN DigitsValue(RemoveCommas(
                SubSeq(sqftString, i,
                       GroupsEnd(sqftString, DigitRunEnd(sqftString, i)))))

\* (variant: the townhome checks made before the studio check)
determineUnitTypeTownhomeFirst(name, bathrooms) ==
    LET lowerName == toLowerCase(name)
    IN IF includes(lowerName, TownhomeWord)
             \/ includes(lowerName, TownhouseWord)
             \/ NumLess(Num(2, <<5>>), bathrooms)
       THEN "townhome"
       ELSE IF includes(lowerName, StudioWord) THEN "studio"
       ELSE "apartment"

determineUnitType(name, bathrooms) ==
    LET lowerName == toLowerCase(name)
    IN IF includes(lowerName, StudioWord) THEN "studio"
       ELSE IF includes(lowerName, TownhomeWord)
                   \/ includes(lowerName, TownhouseWord)
       THEN "townhome"
       ELSE IF NumLess(Num(2, <<5>>), bathrooms) THEN "townhome"
       ELSE "apartment"


\* \d{1,2}\/\d{1,2}\/\d{4} matches from s[i] with a month of a digits and
\* a day of b digits
DateMatchAt(s, i, a, b) ==
    /\ \A k \in i..(i + a - 1) : IsDigitAt(s, k)
    /\ IsCharAt(s, i + a, "/")
    /\ \A k \in (i + a + 1)..(i + a + b) : IsDigitAt(s, k)
    /\ IsCharAt(s, i + a + b + 1, "/")
    /\ \A k \in (i + a + b + 2)..(i + a + b + 5) : IsDigitAt(s, k)

\* availability.match(/(\d{1,2}\/\d{1,2}\/\d{4})/): the leftmost match, or
\* the empty text when there is none
DateMatch(s) ==
    LET at == {i \in 1..Len(s) :
                  \E a, b \in 1..2 : DateMatchAt(s, i, a, b)}
    IN IF at = {} THEN <<>>
       ELSE LET i  == First(at)
                ab == CHOOSE p \in (1..2) \X (1..2) :
                          DateMatchAt(s, i, p[1], p[2])
            IN SubSeq(s, i, i + ab[1] + ab[2] + 5)

standardizeAvailability(availability) ==
    LET lower == toLowerCase(availability)
    IN IF availability = <<>> THEN ContactForAvailability
       ELSE IF includes(lower, AvailableNowLower) \/ lower = AvailableLower
       THEN AvailableNow
       ELSE IF includes(lower, NotSpecifiedLower)
                   \/ includes(lower, NotAvailableLower)
       THEN ContactForAvailability
       ELSE IF DateMatch(availability) # <<>>
       THEN AvailablePrefix \o DateMatch(availability)
       ELSE availability

\* ------------------------------------------ field parsers: the call harness
RECURSIVE Join(_)
\* the words of ws with a space between them
Join(ws) ==
    IF ws = <<>> THEN <<>>
    ELSE IF Len(ws) = 1 THEN ws[1]
    ELSE ws[1] \o <<" ">> \o Join(Tail(ws))

\* the texts of the calls
RawExample == <<"A", "2", " ", "1", " ", "B", "e", "d", " ", "/", " ", "1",
    " ", "B", "a", "t", "h", " ", "8", "5", "0", " ", "S", "q", "F", "t", " ",
    "$", "1", ",", "4", "5", "0">>
NameA1 == <<"A", "1", " ">>
NameStudio == <<"S", "t", "u", "d", "i", "o", " ">>
OneBedOneBath == <<"1", " ", "B", "e", "d", " ", "/", " ", "1", " ", "B", "a",
    "t", "h">>
TwoBedsTwoHalfBaths == <<"2", " ", "B", "e", "d", "s", " ", "/", " ", "2",
    ".", "5", " ", "B", "a", "t", "h", "s">>
ThreeBrTwoBa == <<"3", "B", "R", " ", "/", " ", "2", " ", "B", "A">>
TwoBedroomsThreeBathrooms == <<"2", " ", "b", "e", "d", "r", "o", "o", "m",
    "s", ",", " ", "3", " ", "b", "a", "t", "h", "r", "o", "o", "m", "s">>
SqFt850 == <<" ", "8", "5", "0", " ", "S", "q", ".", " ", "F", "t", ".">>
SqFt1200 == <<" ", "1", ",", "2", "0", "0", " ", "S", "q", ".", " ", "F", "t",
    ".">>
Price1450 == <<" ", "$", "1", ",", "4", "5", "0">>
PriceFrom999 == <<" ", "F", "r", "o", "m", " ", "$", "9", "9", "9">>
WordStudio == <<"S", "t", "u", "d", "i", "o">>
WordSTUDIO == <<"S", "T", "U", "D", "I", "O">>
WordA == <<"A">>
WordTownhome == <<"T", "o", "w", "n", "h", "o", "m", "e">>
WordTownHouse == <<"T", "o", "w", "n", "H", "o", "u", "s", "e">>
WordTheOakwood == <<"T", "h", "e", " ", "O", "a", "k", "w", "o", "o", "d">>
WordPlanB2 == <<"P", "l", "a", "n", " ", "B", "2">>
WordStudios == <<"s", "t", "u", "d", "i", "o", "s">>
StudioA == <<"S", "t", "u", "d", "i", "o", " ", "A">>
TownhomeSTUDIO == <<"T", "o", "w", "n", "h", "o", "m", "e", " ", "S", "T",
    "U", "D", "I", "O">>
WordAvailableLower == <<"a", "v", "a", "i", "l", "a", "b", "l", "e">>
WordAvailable == <<"A", "v", "a", "i", "l", "a", "b", "l", "e">>
WordNowLower == <<"n", "o", "w">>
WordNOW == <<"N", "O", "W">>
WordNot == <<"N", "o", "t">>
WordSpecified == <<"s", "p", "e", "c", "i", "f", "i", "e", "d">>
WordDate == <<"1", "/", "5", "/", "2", "0", "2", "6">>
WordCall == <<"C", "a", "l", "l">>
NotAvailableNowText == <<"N", "o", "t", " ", "a", "v", "a", "i", "l", "a",
    "b", "l", "e", " ", "N", "O", "W">>

\* card texts: a plan name, bed and bath counts, a square footage, a price
CardNames    == {<<>>, NameA1, NameStudio}
CardBedBaths == {OneBedOneBath, TwoBedsTwoHalfBaths, ThreeBrTwoBa,
                 TwoBedroomsThreeBathrooms}
CardSqFts    == {SqFt850, SqFt1200, <<>>}
CardPrices   == {Price1450, PriceFrom999}
CardTexts ==
    {n \o b \o s \o p : n \in CardNames, b \in CardBedBaths,
                        s \in CardSqFts, p \in CardPrices} \cup {RawExample}

\* (price, sqft) pairs given to calculatePricePerSqFt beside the small ones
CalcExamples ==
    {<<1500, 750>>, <<1450, 850>>, <<1500, 0>>, <<0, 750>>, <<1608, 1600>>,
     <<23, 40>>, <<1, 3>>, <<2, 3>>}
CalcPairs ==
    ((-1..MaxCalcPrice) \X (-1..MaxCalcSqFt)) \cup CalcExamples

\* plan names: up to MaxNameWords words; bathroom counts
NameWords ==
    {WordStudio, WordSTUDIO, WordA, WordTownhome, WordTownHouse,
     WordTheOakwood, WordPlanB2, WordStudios}
PlanNames == {Join(ws) : ws \in SeqsUpTo(NameWords, MaxNameWords) \ {<<>>}}
BathroomCounts ==
    {Whole(0), Whole(1), Whole(2), Num(2, <<5>>), Whole(3), Num(3, <<5>>)}

\* availability texts: up to MaxWords words, the empty text included
AvailabilityWords ==
    {WordAvailableLower, WordAvailable, WordNowLower, WordNOW, WordNot,
     WordSpecified,
     WordDate, WordCall}
AvailabilityTexts == {Join(ws) : ws \in SeqsUpTo(AvailabilityWords, MaxWords)}

Returned(v) == [returned |-> TRUE, value |-> v]

InitFields ==
    /\ InitRunIdle /\ InitAggIdle /\ InitParseIdle /\ InitStoreIdle
    /\ InitPinsIdle
    /\ InitRenderIdle /\ InitProbeIdle /\ InitServerIdle
    /\ \/ \E t \in CardTexts : fieldCall = [fn |-> "chain", raw |-> t]
       \/ \E pd \in CalcPairs :
             fieldCall = [fn |-> "calculatePricePerSqFt",
                          price |-> pd[1], sqft |-> pd[2]]
       \/ \E n \in PlanNames, b \in BathroomCounts :
             fieldCall = [fn |-> "determineUnitType", name |-> n,
                          bathrooms |-> b]
       \/ \E a \in AvailabilityTexts :
             fieldCall = [fn |-> "standardizeAvailability",
                          availability |-> a]
    /\ fieldResult = NoResult

\* the parsers applied to one text, as the scrapers chain them: the price
\* and the square footage parsed feed calculatePricePerSqFt, the bathrooms
\* parsed feed determineUnitType
ParserChain(raw) ==
    LET parsedPrice == parsePrice(raw)
        bedrooms == parseBedrooms(raw)
        bathrooms == parseBathrooms(raw)
        squareFootage == parseSquareFootage(raw)
    IN [price |-> parsedPrice, bedrooms |-> bedrooms, bathrooms |-> bathrooms,
        squareFootage |-> squareFootage,
        unitType |-> determineUnitType(raw, bathrooms),
        pricePerSqFt |-> calculatePricePerSqFt(parsedPrice, squareFootage)]

ParserChainCall ==
    /\ fieldCall.fn = "chain" /\ fieldResult = NoResult
    /\ fieldResult' = Returned(ParserChain(fieldCall.raw))
    /\ UNCHANGED <<fieldCall, runVars, scraperVars, aggVars, parseVars,
                   storeVars, pinVars, laterVars>>

CalculatePricePerSqFtCall ==
    /\ fieldCall.fn = "calculatePricePerSqFt" /\ fieldResult = NoResult
    /\ fieldResult' = Returned(calculatePricePerSqFt(Whole(fieldCall.price),
                                                     fieldCall.sqft))
    /\ UNCHANGED <<fieldCall, runVars, scraperVars, aggVars, parseVars,
                   storeVars, pinVars, laterVars>>

DetermineUnitTypeCall ==
    /\ fieldCall.fn = "determineUnitType" /\ fieldResult = NoResult
    /\ fieldResult' = Returned(determineUnitType(fieldCall.name,
                                                 fieldCall.bathrooms))
    /\ UNCHANGED <<fieldCall, runVars, scraperVars, aggVars, parseVars,
                   storeVars, pinVars, laterVars>>

StandardizeAvailabilityCall ==
    /\ fieldCall.fn = "standardizeAvailability" /\ fieldResult = NoResult
    /\ fieldResult' = Returned(standardizeAvailability(fieldCall.availability))
    /\ UNCHANGED <<fieldCall, runVars, scraperVars, aggVars, parseVars,
                   storeVars, pinVars, laterVars>>

NextFields ==
    \/ ParserChainCall
    \/ CalculatePricePerSqFtCall
    \/ DetermineUnitTypeCall
    \/ StandardizeAvailabilityCall

SpecFields == InitFields /\ [][NextFields]_vars

\* ---------------------------------------------------- field parsers: claims
\* C11: the parsers applied to "A2 1 Bed / 1 Bath 850 SqFt $1,450" yield
\* bedrooms = 1, bathrooms = 1, squareFootage = 850, price = 1450,
\* pricePerSqFt = 1.71 and unitType = "apartment".
C11_ParserChainExample ==
    (fieldCall.fn = "chain" /\ fieldCall.raw = RawExample
        /\ fieldResult # NoResult) =>
        /\ fieldResult.value.bedrooms = 1
        /\ fieldResult.value.bathrooms = Whole(1)
        /\ fieldResult.value.squareFootage = 850
        /\ fieldResult.value.price = Whole(1450)
        /\ fieldResult.value.pricePerSqFt = Num(1, <<7, 1>>)
        /\ fieldResult.value.unitType = "apartment"

\* price / sqft rounded half-up to two decimals, in hundredths
HalfUpHundredths(p, sqft) == (200 * p + sqft) \div (2 * sqft)

\* C12: calculatePricePerSqFt(price, sqft) is 0 whenever price <= 0 or
\* sqft <= 0, otherwise price / sqft rounded half-up to two decimals
\* ((1500, 750) gives 2.0, (1450, 850) gives 1.71), and never negative.
C12_RoundedHalfUp ==
    (fieldCall.fn = "calculatePricePerSqFt" /\ fieldResult # NoResult) =>
        LET p == fieldCall.price
            d == fieldCall.sqft
            r == fieldResult.value
        IN /\ r.whole >= 0
           /\ (p <= 0 \/ d <= 0) => r = Whole(0)
           /\ (p > 0 /\ d > 0) => Cents(r) = HalfUpHundredths(p, d)
           /\ (p = 1500 /\ d = 750) => r = Whole(2)
           /\ (p = 1450 /\ d = 850) => r = Num(1, <<7, 1>>)

\* the name holds the word w, in any mix of upper and lower case
NameHolds(name, w) ==
    \E i \in 1..Len(name) : \E j \in i..Len(name) :
        toLowerCase(SubSeq(name, i, j)) = w

\* C13: determineUnitType(name, bathrooms) is 'studio' whenever the name
\* holds 'studio' in any case, whatever the bathrooms and even when the name
\* also holds 'townhome'; otherwise 'townhome' when the name holds
\* 'townhome' or 'townhouse' or bathrooms > 2.5; otherwise 'apartment'.
C13_UnitTypeOrder ==
    (fieldCall.fn = "determineUnitType" /\ fieldResult # NoResult) =>
        LET n      == fieldCall.name
            b      == fieldCall.bathrooms
            studio == NameHolds(n, StudioWord)
            town   == NameHolds(n, TownhomeWord) \/ NameHolds(n, TownhouseWord)
            many   == b.whole >= 3 \/ (b.whole = 2 /\ Len(b.frac) >= 1
                                          /\ b.frac # <<5>> /\ b.frac[1] >= 5)
        IN /\ studio => fieldResult.value = "studio"
           /\ (~studio /\ (town \/ many)) => fieldResult.value = "townhome"
           /\ (~studio /\ ~town /\ ~many) => fieldResult.value = "apartment"
           /\ (n = StudioA /\ b = Whole(1)) => fieldResult.value = "studio"
           /\ (n = WordTheOakwood /\ b = Whole(3))
                 => fieldResult.value = "townhome"
           /\ (n = WordPlanB2 /\ b = Num(2, <<5>>))
                 => fieldResult.value = "apartment"

\* determineUnitType returned 'studio' for a name that holds both 'studio'
\* and 'townhome', with more than 2.5 bathrooms
C13_Witness ==
    /\ fieldCall.fn = "determineUnitType"
    /\ fieldCall.name = TownhomeSTUDIO
    /\ fieldCall.bathrooms = Whole(3)
    /\ fieldResult = Returned("studio")

\* C14: standardizeAvailability returns 'Contact for Availability' for every
\* text that is empty or holds 'not specified' or 'not available' in any
\* case, 'Available Now' for a text that is 'available' or holds 'available
\* now', 'Available ' and the date for any other text with a date, and every
\* other text unchanged.
C14_AvailabilityClasses ==
    (fieldCall.fn = "standardizeAvailability" /\ fieldResult # NoResult) =>
        LET a       == fieldCall.availability
            lower   == toLowerCase(a)
            contact == \/ a = <<>>
                       \/ includes(lower, NotSpecifiedLower)
                       \/ includes(lower, NotAvailableLower)
            now     == \/ lower = WordAvailableLower
                       \/ includes(lower, AvailableNowLower)
            dated   == DateMatch(a) # <<>>
        IN /\ contact => fieldResult.value = ContactForAvailability
           /\ now => fieldResult.value = AvailableNow
           /\ (~contact /\ ~now /\ dated)
                 => fieldResult.value = AvailablePrefix \o DateMatch(a)
           /\ (~contact /\ ~now /\ ~dated) => fieldResult.value = a

\* ------------------------------------------------------------ StorageService
\* The content of data/prices.json is pricesFile: NoReport while the file
\* does not exist, otherwise the JSON value written in it, or Truncated, a
\* text that is no JSON document.
JsonNull  == [null |-> TRUE]
Truncated == [date |-> -3]

\* JSON.stringify of a number: NaN, Infinity and -Infinity are written null
JsonNumber(n) == IF n \in {NaN, PosInf, NegInf} THEN JsonNull ELSE n

JsonSummary(s) ==
    [s EXCEPT !.priceRange = [min |-> JsonNumber(@.min),
                              max |-> JsonNumber(@.max)],
              !.avgPricePerSqFt = JsonNumber(@)]

\* JSON.stringify(report, null, 2): the JSON value of a DailyReport
JsonStringify(report) ==
    [report EXCEPT
        !.properties = [i \in 1..Len(@) |-> JsonSummary(@[i])],
        !.marketSummary = [@ EXCEPT !.avgRent = JsonNumber(@),
                                    !.avgPricePerSqFt = JsonNumber(@)]]

\* JSON.parse(data) of a text that is a JSON document: the value written
JsonParse(data) == data

\* (variant: a write that does not replace an existing file)
WrittenFileKeepOld(old, report) ==
    IF old = NoReport THEN JsonStringify(report) ELSE old
\* fs.writeFile(this.pricesFile, reportData, 'utf8'): the file after the
\* write, whatever it held before
WrittenFile(old, report) == JsonStringify(report)

\* the reports handed to saveDailyReport: of a list of up to MaxStoreLen
\* plans, all without a price or all with one, built on day 0 or 1
StoreLists ==
    UNION {{AggList(k, [i \in 1..k |-> <<v, v>>]) : v \in {0, 1}} :
           k \in 1..MaxStoreLen}
StoreReports ==
    {createDailyReport(<<createPropertySummary(AggProperty, l)>>, l, d) :
        l \in StoreLists, d \in {0, 1}}

InitStore ==
    /\ InitRunIdle /\ InitAggIdle /\ InitParseIdle /\ InitFieldsIdle
    /\ InitPinsIdle
    /\ InitRenderIdle /\ InitProbeIdle /\ InitServerIdle
    /\ dataDir \in {"missing", "exists"}
    /\ storeOp = NoCall /\ storeSettle = NoCall /\ storeLogged = FALSE
    /\ lastSaved = NoReport /\ storeCalls = <<>>

StoreIdleVars == <<runVars, scraperVars, aggVars, parseVars, fieldVars, pinVars,
                   laterVars>>
RunVarsButFile == <<entry, pc, cur, calls, allFloorPlans, scrapingResults,
                    dailyReport, exitCode, topLevelError>>
StoreOtherVars == <<scraperVars, aggVars, parseVars, fieldVars, pinVars,
                    laterVars>>

\* saveDailyReport(report) is called: it awaits ensureDataDirectory, which
\* awaits fs.access
SaveDailyReportCall ==
    /\ storeOp = NoCall /\ Len(storeCalls) < MaxStoreCalls
    /\ \E report \in StoreReports :
          /\ storeOp' = [call |-> "save", at |-> "access", report |-> report]
          /\ storeCalls' = Append(storeCalls, storeOp')
    /\ storeLogged' = FALSE
    /\ storeSettle' = NoCall
    /\ UNCHANGED <<dataDir, lastSaved, StoreIdleVars>>

\* fs.access(this.dataDir) resolves: the directory exists
EnsureAccessOk ==
    /\ storeOp.call = "save" /\ storeOp.at = "access"
    /\ dataDir = "exists"
    /\ storeOp' = [storeOp EXCEPT !.at = "write"]
    /\ UNCHANGED <<dataDir, storeSettle, storeLogged, lastSaved, storeCalls,
                   StoreIdleVars>>

\* fs.access rejects: the bare catch goes on to fs.mkdir
EnsureAccessFail ==
    /\ storeOp.call = "save" /\ storeOp.at = "access"
    /\ dataDir = "missing"
    /\ storeOp' = [storeOp EXCEPT !.at = "mkdir"]
    /\ UNCHANGED <<dataDir, storeSettle, storeLogged, lastSaved, storeCalls,
                   StoreIdleVars>>

\* fs.mkdir(this.dataDir, { recursive: true }) resolves
EnsureMkdirOk ==
    /\ storeOp.call = "save" /\ storeOp.at = "mkdir"
    /\ dataDir' = "exists"
    /\ storeOp' = [storeOp EXCEPT !.at = "write"]
    /\ UNCHANGED <<storeSettle, storeLogged, lastSaved, storeCalls,
                   StoreIdleVars>>

\* fs.mkdir rejects: the error leaves ensureDataDirectory and, the await
\* being outside saveDailyReport's try, saveDailyReport as well
EnsureMkdirFail ==
    /\ storeOp.call = "save" /\ storeOp.at = "mkdir"
    /\ storeSettle' = [call |-> "save", state |-> "rejected",
                       error |-> "mkdir", report |-> storeOp.report]
    /\ storeOp' = NoCall
    /\ UNCHANGED <<dataDir, storeLogged, lastSaved, storeCalls, StoreIdleVars>>

\* JSON.stringify and fs.writeFile succeed: the file holds the report
SaveWriteOk ==
    /\ storeOp.call = "save" /\ storeOp.at = "write"
    /\ pricesFile' = WrittenFile(pricesFile, storeOp.report)
    /\ lastSaved' = storeOp.report
    /\ storeSettle' = [call |-> "save", state |-> "resolved",
                       error |-> "none", report |-> storeOp.report]
    /\ storeOp' = NoCall
    /\ UNCHANGED <<dataDir, storeLogged, storeCalls, RunVarsButFile,
                   StoreOtherVars>>

\* fs.writeFile rejects: the catch logs the error and throws it again; the
\* file is as it was or, opened for writing already, cut short
SaveWriteFail ==
    /\ storeOp.call = "save" /\ storeOp.at = "write"
    /\ pricesFile' \in {pricesFile, Truncated}
    /\ lastSaved' = NoReport
    /\ storeLogged' = TRUE
    /\ storeSettle' = [call |-> "save", state |-> "rejected",
                       error |-> "write", report |-> storeOp.report]
    /\ storeOp' = NoCall
    /\ UNCHANGED <<dataDir, storeCalls, RunVarsButFile, StoreOtherVars>>

\* loadDailyReport() is called: it awaits fs.readFile
LoadDailyReportCall ==
    /\ storeOp = NoCall /\ Len(storeCalls) < MaxStoreCalls
    /\ storeOp' = [call |-> "load", at |-> "read"]
    /\ storeCalls' = Append(storeCalls, storeOp')
    /\ storeLogged' = FALSE
    /\ storeSettle' = NoCall
    /\ UNCHANGED <<dataDir, lastSaved, StoreIdleVars>>

\* fs.readFile resolves and JSON.parse returns the value
LoadReadOk ==
    /\ storeOp.call = "load"
    /\ pricesFile \notin {NoReport, Truncated}
    /\ storeSettle' = [call |-> "load", state |-> "resolved",
                       error |-> "none", value |-> JsonParse(pricesFile)]
    /\ storeOp' = NoCall
    /\ UNCHANGED <<dataDir, storeLogged, lastSaved, storeCalls, StoreIdleVars>>

\* fs.readFile rejects with code ENOENT: null is returned
LoadNoFile ==
    /\ storeOp.call = "load"
    /\ pricesFile = NoReport
    /\ storeSettle' = [call |-> "load", state |-> "resolved",
                       error |-> "none", value |-> JsonNull]
    /\ storeOp' = NoCall
    /\ UNCHANGED <<dataDir, storeLogged, lastSaved, storeCalls, StoreIdleVars>>

\* fs.readFile of the existing file rejects with another code, or JSON.parse
\* throws: the catch logs the error and throws it again
LoadReadFail ==
    /\ storeOp.call = "load"
    /\ pricesFile # NoReport
    /\ storeLogged' = TRUE
    /\ storeSettle' = [call |-> "load", state |-> "rejected",
                       error |-> IF pricesFile = Truncated THEN "parse"
                                 ELSE "read"]
    /\ storeOp' = NoCall
    /\ UNCHANGED <<dataDir, lastSaved, storeCalls, StoreIdleVars>>

NextStore ==
    \/ SaveDailyReportCall
    \/ EnsureAccessOk
    \/ EnsureAccessFail
    \/ EnsureMkdirOk
    \/ EnsureMkdirFail
    \/ SaveWriteOk
    \/ SaveWriteFail
    \/ LoadDailyReportCall
    \/ LoadReadOk
    \/ LoadNoFile
    \/ LoadReadFail

SpecStore == InitStore /\ [][NextStore]_vars

\* ---------------------------------------------------- StorageService: claims
\* C15: a saveDailyReport during which creating the data directory or
\* writing the file failed has logged the error and its promise is rejected
\* with it; a save that resolved has written the report.
C15_SaveErrorsLoggedAndRaised ==
    (storeSettle.call = "save" /\ storeOp = NoCall) =>
        /\ storeSettle.error # "none" =>
              (storeLogged /\ storeSettle.state = "rejected")
        /\ storeSettle.state = "resolved" =>
              pricesFile = JsonStringify(storeSettle.report)

\* a number that JSON can write
JsonSafeNumber(n) == n # NaN /\ n # PosInf /\ n # NegInf

\* every number of the report is one JSON can write
JsonSafe(report) ==
    /\ JsonSafeNumber(report.marketSummary.avgRent)
    /\ JsonSafeNumber(report.marketSummary.avgPricePerSqFt)
    /\ \A i \in 1..Len(report.properties) :
          /\ JsonSafeNumber(report.properties[i].priceRange.min)
          /\ JsonSafeNumber(report.properties[i].priceRange.max)
          /\ JsonSafeNumber(report.properties[i].avgPricePerSqFt)

\* C16: when the last save succeeded and its report holds JSON-safe values
\* only, loadDailyReport returns a report equal to it in every field,
\* however many saves went before; while no file exists loadDailyReport
\* returns null and does not reject.
C16_LoadReturnsLastSaved ==
    (storeSettle.call = "load" /\ storeOp = NoCall) =>
        /\ (lastSaved # NoReport /\ JsonSafe(lastSaved)) =>
              /\ storeSettle.state = "resolved" => storeSettle.value = lastSaved
              /\ storeSettle.error # "parse"
        /\ pricesFile = NoReport =>
              (storeSettle.state = "resolved" /\ storeSettle.value = JsonNull)

\* a report was loaded after two saves of different reports had succeeded,
\* and it equals the second one
C16_Witness ==
    /\ storeSettle.call = "load" /\ storeSettle.state = "resolved"
    /\ Len(storeCalls) = 3
    /\ storeCalls[1].call = "save" /\ storeCalls[2].call = "save"
    /\ storeCalls[1].report # storeCalls[2].report
    /\ JsonSafe(storeCalls[1].report) /\ JsonSafe(storeCalls[2].report)
    /\ lastSaved = storeCalls[2].report
    /\ storeSettle.value = storeCalls[2].report

\* ------------------------------------------- extractPerimeterFloorPlans
\* The extractor walks the interactive map: it opens each region, clicks each
\* available-unit pin, reads the unit's details, closes them, and reloads the
\* page between regions. A pin is named <<region, unit>> by its two loop
\* indices; the record read from a pin is named by the pin. Every awaited
\* page operation either resolves or throws.
InitPins ==
    /\ InitRunIdle /\ InitAggIdle /\ InitParseIdle /\ InitFieldsIdle
    /\ InitStoreIdle
    /\ InitRenderIdle /\ InitProbeIdle /\ InitServerIdle
    /\ ppc = "start" /\ regions = 0 /\ pins = <<>> /\ regionIndex = 0
    /\ unitIndex = 0 /\ allUnits = <<>> /\ visited = {} /\ failed = {}
    /\ pinLog = {} /\ pinRet = NotReturned

PinIdleVars == <<runVars, scraperVars, aggVars, parseVars, fieldVars, storeVars,
                 laterVars>>

CurPin == <<regionIndex, unitIndex>>

\* the catch of the region loop: the error is logged and the loop goes on
\* with the next region
RegionCatch ==
    /\ pinLog' = pinLog \cup {<<"region", regionIndex>>}
    /\ regionIndex' = regionIndex + 1
    /\ ppc' = "region"

\* the catch of the pin loop is entered: the error is logged, and Escape is
\* about to be pressed
UnitCatch ==
    /\ failed' = failed \cup {CurPin}
    /\ pinLog' = pinLog \cup {<<"unit", regionIndex, unitIndex>>}
    /\ ppc' = "unitCatch"

\* the region buttons are waited for and found
FindRegions ==
    /\ ppc = "start"
    /\ \E n \in 1..MaxRegions :
          /\ regions' = n
          /\ pins' = [r \in 0..(n - 1) |-> 0]
    /\ ppc' = "region"
    /\ UNCHANGED <<regionIndex, unitIndex, allUnits, visited, failed, pinLog,
                   pinRet, PinIdleVars>>

\* waiting for the region buttons throws: the outer catch returns []
FindRegionsFail ==
    /\ ppc = "start"
    /\ pinLog' = pinLog \cup {<<"sequence">>}
    /\ pinRet' = <<>>
    /\ ppc' = "done"
    /\ UNCHANGED <<regions, pins, regionIndex, unitIndex, allUnits, visited,
                   failed, PinIdleVars>>

\* the region's button is clicked and its map is given time to load
RegionClick ==
    /\ ppc = "region" /\ regionIndex < regions
    /\ ppc' = "pinsWait"
    /\ UNCHANGED <<regions, pins, regionIndex, unitIndex, allUnits, visited,
                   failed, pinLog, pinRet, PinIdleVars>>

\* the click on the region's button throws
RegionClickFail ==
    /\ ppc = "region" /\ regionIndex < regions
    /\ RegionCatch
    /\ UNCHANGED <<regions, pins, unitIndex, allUnits, visited, failed,
                   pinRet, PinIdleVars>>

\* the region's available-unit pins are waited for and found
FindPins ==
    /\ ppc = "pinsWait"
    /\ \E n \in 1..MaxPins : pins' = [pins EXCEPT ![regionIndex] = n]
    /\ unitIndex' = 0
    /\ ppc' = "pin"
    /\ UNCHANGED <<regions, regionIndex, allUnits, visited, failed, pinLog,
                   pinRet, PinIdleVars>>

\* no pin shows up in time: waitForSelector throws
FindPinsFail ==
    /\ ppc = "pinsWait"
    /\ RegionCatch
    /\ UNCHANGED <<regions, pins, unitIndex, allUnits, visited, failed,
                   pinRet, PinIdleVars>>

\* the pin is clicked and its details are given time to load
PinClick ==
    /\ ppc = "pin" /\ unitIndex < pins[regionIndex]
    /\ visited' = visited \cup {CurPin}
    /\ ppc' = "opened"
    /\ UNCHANGED <<regions, pins, regionIndex, unitIndex, allUnits, failed,
                   pinLog, pinRet, PinIdleVars>>

\* the click on the pin throws
PinClickFail ==
    /\ ppc = "pin" /\ unitIndex < pins[regionIndex]
    /\ visited' = visited \cup {CurPin}
    /\ UnitCatch
    /\ UNCHANGED <<regions, pins, regionIndex, unitIndex, allUnits, pinRet,
                   PinIdleVars>>

\* the unit's fields are read in the page and the record is pushed
ReadUnit ==
    /\ ppc = "opened"
    /\ allUnits' = Append(allUnits, CurPin)
    /\ ppc' = "pushed"
    /\ UNCHANGED <<regions, pins, regionIndex, unitIndex, visited, failed,
                   pinLog, pinRet, PinIdleVars>>

\* reading the unit's fields throws
ReadUnitFail ==
    /\ ppc = "opened"
    /\ UnitCatch
    /\ UNCHANGED <<regions, pins, regionIndex, unitIndex, allUnits, visited,
                   pinRet, PinIdleVars>>

\* Escape closes the unit's details: on to the next pin
CloseUnit ==
    /\ ppc = "pushed"
    /\ unitIndex' = unitIndex + 1
    /\ ppc' = "pin"
    /\ UNCHANGED <<regions, pins, regionIndex, allUnits, visited, failed,
                   pinLog, pinRet, PinIdleVars>>

\* pressing Escape throws
CloseUnitFail ==
    /\ ppc = "pushed"
    /\ UnitCatch
    /\ UNCHANGED <<regions, pins, regionIndex, unitIndex, allUnits, visited,
                   pinRet, PinIdleVars>>

\* the Escape pressed inside the pin loop's catch resolves: on to the next pin
UnitCatchEscape ==
    /\ ppc = "unitCatch"
    /\ unitIndex' = unitIndex + 1
    /\ ppc' = "pin"
    /\ UNCHANGED <<regions, pins, regionIndex, allUnits, visited, failed,
                   pinLog, pinRet, PinIdleVars>>

\* the Escape pressed inside the pin loop's catch throws: nothing guards it
\* but the region's try block, so the region's catch takes over
UnitCatchEscapeFail ==
    /\ ppc = "unitCatch"
    /\ RegionCatch
    /\ UNCHANGED <<regions, pins, unitIndex, allUnits, visited, failed,
                   pinRet, PinIdleVars>>

\* the pin loop ends after the last region: nothing is reloaded
PinsDoneLastRegion ==
    /\ ppc = "pin" /\ unitIndex = pins[regionIndex]
    /\ ~(regionIndex < regions - 1)
    /\ regionIndex' = regionIndex + 1
    /\ ppc' = "region"
    /\ UNCHANGED <<regions, pins, unitIndex, allUnits, visited, failed,
                   pinLog, pinRet, PinIdleVars>>

\* the pin loop ends and the page is reloaded for the next region
PinsDoneReload ==
    /\ ppc = "pin" /\ unitIndex = pins[regionIndex]
    /\ regionIndex < regions - 1
    /\ regionIndex' = regionIndex + 1
    /\ ppc' = "region"
    /\ UNCHANGED <<regions, pins, unitIndex, allUnits, visited, failed,
                   pinLog, pinRet, PinIdleVars>>

\* the reload throws: its own catch logs it and the loop goes on
PinsDoneReloadFail ==
    /\ ppc = "pin" /\ unitIndex = pins[regionIndex]
    /\ regionIndex < regions - 1
    /\ pinLog' = pinLog \cup {<<"back", regionIndex>>}
    /\ regionIndex' = regionIndex + 1
    /\ ppc' = "region"
    /\ UNCHANGED <<regions, pins, unitIndex, allUnits, visited, failed,
                   pinRet, PinIdleVars>>

\* the region loop ends: allUnits is returned
ReturnAllUnits ==
    /\ ppc = "region" /\ regionIndex = regions
    /\ pinRet' = allUnits
    /\ ppc' = "done"
    /\ UNCHANGED <<regions, pins, regionIndex, unitIndex, allUnits, visited,
                   failed, pinLog, PinIdleVars>>

NextPins ==
    \/ FindRegions
    \/ FindRegionsFail
    \/ RegionClick
    \/ RegionClickFail
    \/ FindPins
    \/ FindPinsFail
    \/ PinClick
    \/ PinClickFail
    \/ ReadUnit
    \/ ReadUnitFail
    \/ CloseUnit
    \/ CloseUnitFail
    \/ UnitCatchEscape
    \/ UnitCatchEscapeFail
    \/ PinsDoneLastRegion
    \/ PinsDoneReload
    \/ PinsDoneReloadFail
    \/ ReturnAllUnits

SpecPins == InitPins /\ [][NextPins]_vars

\* ---------------------------------- claims on extractPerimeterFloorPlans
\* C20: a failure while one unit pin is handled (its click, the reading of
\* its fields or the closing of its details) is logged and skipped: when
\* the extractor has returned, every failed pin was logged, every pin found
\* in any region was visited, no pin gave more than one record, and the
\* records collected are the list returned.
C20_PinFailureSkipped ==
    (ppc = "done" /\ regions > 0) =>
        /\ \A q \in failed : <<"unit", q[1], q[2]>> \in pinLog
        /\ \A r \in 0..(regions - 1) : \A u \in 0..(pins[r] - 1) :
              <<r, u>> \in visited
        /\ \A i, j \in 1..Len(allUnits) :
              allUnits[i] = allUnits[j] => i = j
        /\ pinRet = allUnits

\* ------------------------------------------------------------ the scrapers
SiteOrder   == <<"camden", "columns", "drift">>
AllScrapers == {"camden", "columns", "drift", "perimeter"}

PropertyName(s) ==
    CASE s = "camden"    -> "Camden Dunwoody"
      [] s = "columns"   -> "The Columns at Lake Ridge"
      [] s = "drift"     -> "Drift Dunwoody"
      [] s = "perimeter" -> "Perimeter Gardens"

\* the awaited browser operations of a scraper's try block, in order
Ops == <<"launch", "newPage", "setHeaders", "goto", "waitForTimeout",
         "title", "extract">>
OpIndex(op) == CHOOSE i \in 1..Len(Ops) : Ops[i] = op

\* (variant: the inline computation without the final division by 100)
InlinePricePerSqFtScaled(p, sqft) ==
    IF sqft > 0 THEN Whole(Cents(RoundedPerSqFt(p, sqft))) ELSE Whole(0)
\* plan.squareFootage > 0 ? Math.round((plan.price / plan.squareFootage) * 100) / 100 : 0
InlinePricePerSqFt(p, sqft) ==
    IF sqft > 0 THEN RoundedPerSqFt(p, sqft) ELSE Whole(0)

\* The FloorPlan a scraper builds from one extracted card whose price and
\* square-footage texts parse to p and sqft.  Camden standardizes the
\* availability of a card without a date ('Not specified'); Columns and
\* Drift pass the extractor's default 'Available' through.
\* the pricePerSqFt each scraper computes for the prices and square
\* footages of a run: Camden calls the DataProcessor, the others compute it
\* inline
SitePricePerSqFt ==
    [s \in {"camden", "columns", "drift", "perimeter"} |->
        [c \in {0, MaxPrice} \X {0, MaxSqFt} |->
            IF s = "camden"
            THEN Cents(calculatePricePerSqFt(Whole(c[1]), c[2]))
            ELSE Cents(InlinePricePerSqFt(Whole(c[1]), c[2]))]]

ProcessedPlan(s, i, p, sqft) ==
    IF s = "camden"
    THEN FloorPlan(i, p, sqft, SitePricePerSqFt[s][<<p, sqft>>],
                   1, "Contact for Availability", PropertyName(s))
    ELSE FloorPlan(i, p, sqft, SitePricePerSqFt[s][<<p, sqft>>], 1,
                   "Available", PropertyName(s))

\* what a scraper can return for the cards its page shows: each card's
\* price and square footage parse to 0 (not found) or to a positive value
SitePlans(s) ==
    UNION {{[i \in 1..k |-> ProcessedPlan(s, i, f[i][1], f[i][2])] :
              f \in [1..k -> {0, MaxPrice} \X {0, MaxSqFt}]} :
           k \in 0..MaxSitePlans}

\* an awaited operation before the extraction succeeds; a successful
\* chromium.launch assigns the browser
ScraperOpOk(s) ==
    /\ spc[s] \in {"launch", "newPage", "setHeaders", "goto",
                   "waitForTimeout", "title"}
    /\ spc' = [spc EXCEPT ![s] = Ops[OpIndex(spc[s]) + 1]]
    /\ browser' = IF spc[s] = "launch"
                  THEN [browser EXCEPT ![s] = "open"] ELSE browser
    /\ UNCHANGED <<ret, settle, caught, runVars, aggVars, parseVars, otherVars>>

\* an awaited operation before the extraction throws: control goes to catch
ScraperOpFail(s) ==
    /\ spc[s] \in {"launch", "newPage", "setHeaders", "goto",
                   "waitForTimeout", "title"}
    /\ spc' = [spc EXCEPT ![s] = "catch"]
    /\ UNCHANGED <<browser, ret, settle, caught, runVars, aggVars, parseVars, otherVars>>

\* extract...FloorPlans returns the cards and the scraper returns the
\* processed list (scrapePerimeter only logs it and returns nothing)
ExtractOk(s) ==
    /\ spc[s] = "extract"
    /\ \E plans \in SitePlans(s) :
          ret' = [ret EXCEPT ![s] = IF s = "perimeter" THEN <<>> ELSE plans]
    /\ spc' = [spc EXCEPT ![s] = "finally"]
    /\ UNCHANGED <<browser, settle, caught, runVars, aggVars, parseVars, otherVars>>

\* an error inside extract...FloorPlans is caught by its own try / catch,
\* logged, and [] is returned to the scraper, which returns it
ExtractFail(s) ==
    /\ spc[s] = "extract"
    /\ ret' = [ret EXCEPT ![s] = <<>>]
    /\ caught' = [caught EXCEPT ![s] = "extract"]
    /\ spc' = [spc EXCEPT ![s] = "finally"]
    /\ UNCHANGED <<browser, settle, runVars, aggVars, parseVars, otherVars>>

\* the scraper's catch block: log and return []
ScraperCatch(s) ==
    /\ spc[s] = "catch"
    /\ ret' = [ret EXCEPT ![s] = <<>>]
    /\ caught' = [caught EXCEPT ![s] = "scraper"]
    /\ spc' = [spc EXCEPT ![s] = "finally"]
    /\ UNCHANGED <<browser, settle, runVars, aggVars, parseVars, otherVars>>

\* finally with no browser assigned (launch failed): the promise resolves
FinallyNoBrowser(s) ==
    /\ spc[s] = "finally"
    /\ browser[s] = "none"
    /\ spc' = [spc EXCEPT ![s] = "settled"]
    /\ settle' = [settle EXCEPT ![s] = "resolved"]
    /\ UNCHANGED <<browser, ret, caught, runVars, aggVars, parseVars, otherVars>>

\* (variant: a finally that settles without closing the browser)
FinallySkipClose(s) ==
    /\ spc[s] = "finally"
    /\ browser[s] = "open"
    /\ spc' = [spc EXCEPT ![s] = "settled"]
    /\ settle' = [settle EXCEPT ![s] = "resolved"]
    /\ UNCHANGED <<browser, ret, caught, runVars, aggVars, parseVars, otherVars>>
\* finally: await browser.close() succeeds and the promise resolves with
\* the value of the return statement
FinallyCloseOk(s) ==
    /\ spc[s] = "finally"
    /\ browser[s] = "open"
    /\ browser' = [browser EXCEPT ![s] = "closed"]
    /\ spc' = [spc EXCEPT ![s] = "settled"]
    /\ settle' = [settle EXCEPT ![s] = "resolved"]
    /\ UNCHANGED <<ret, caught, runVars, aggVars, parseVars, otherVars>>

\* finally: await browser.close() throws; the error of a finally block
\* replaces the pending return, so the scraper's promise rejects
FinallyCloseFail(s) ==
    /\ spc[s] = "finally"
    /\ browser[s] = "open"
    /\ browser' = [browser EXCEPT ![s] = "closeFailed"]
    /\ spc' = [spc EXCEPT ![s] = "settled"]
    /\ settle' = [settle EXCEPT ![s] = "rejected"]
    /\ UNCHANGED <<ret, caught, runVars, aggVars, parseVars, otherVars>>

ScraperStep(s) ==
    \/ ScraperOpOk(s) \/ ScraperOpFail(s)
    \/ ExtractOk(s) \/ ExtractFail(s)
    \/ ScraperCatch(s)
    \/ FinallyNoBrowser(s) \/ FinallyCloseOk(s) \/ FinallyCloseFail(s)

\* ------------------------------------------------------- index.ts: main()
OldReport == [date |-> -2]     \* the file a previous run left

Idle(f) == [s \in AllScrapers |-> f]

Init ==
    /\ InitAggIdle /\ InitParseIdle /\ InitFieldsIdle /\ InitStoreIdle
    /\ InitPinsIdle
    /\ InitRenderIdle /\ InitProbeIdle /\ InitServerIdle
    /\ entry \in {"index", "indexPerimeter"}
    /\ pc = "call" /\ cur = 1 /\ calls = <<>>
    /\ allFloorPlans = <<>> /\ scrapingResults = <<>>
    /\ dailyReport = NoReport /\ exitCode = -1 /\ topLevelError = FALSE
    /\ pricesFile \in {NoReport, OldReport}
    /\ spc = Idle("idle") /\ browser = Idle("none") /\ ret = Idle(<<>>)
    /\ settle = Idle("pending") /\ caught = Idle("none")

CurSite == IF entry = "index" THEN SiteOrder[cur] ELSE "perimeter"

\* main goes on to the next try block, or to Phase 2 after the last one
Advance ==
    IF cur < Len(SiteOrder)
    THEN /\ cur' = cur + 1 /\ pc' = "call"
    ELSE /\ cur' = cur /\ pc' = "phase2"

\* await scrapeX(): the call starts the scraper, which runs up to its first
\* await (chromium.launch)
MainCallScraper ==
    /\ pc = "call"
    /\ spc[CurSite] = "idle"
    /\ spc' = [spc EXCEPT ![CurSite] = "launch"]
    /\ calls' = Append(calls, CurSite)
    /\ pc' = "await"
    /\ UNCHANGED <<entry, cur, allFloorPlans, scrapingResults, dailyReport,
                   exitCode, topLevelError, pricesFile, browser, ret, settle,
                   caught, aggVars, parseVars, otherVars>>

\* (variant: main goes on without awaiting the scraper)
MainNoAwait ==
    /\ entry = "index" /\ pc = "await"
    /\ Advance
    /\ UNCHANGED <<entry, calls, allFloorPlans, scrapingResults, dailyReport,
                   exitCode, topLevelError, pricesFile, scraperVars, aggVars,
                   parseVars, otherVars>>
\* (variant: a try block that records whether the scraper logged an error)
MainAwaitResolvedFlagErrors ==
    /\ entry = "index" /\ pc = "await"
    /\ settle[CurSite] = "resolved"
    /\ allFloorPlans' = allFloorPlans \o ret[CurSite]
    /\ scrapingResults' = Append(scrapingResults,
          [success |-> caught[CurSite] = "none", source |-> PropertyName(CurSite),
           floorPlans |-> ret[CurSite],
           errors |-> IF caught[CurSite] = "none" THEN <<>>
                      ELSE <<"extraction failed">>])
    /\ Advance
    /\ UNCHANGED <<entry, calls, dailyReport, exitCode, topLevelError,
                   pricesFile, scraperVars, aggVars, parseVars, otherVars>>
\* the body of one try block after the awaited scraper resolved
MainAwaitResolved ==
    /\ entry = "index" /\ pc = "await"
    /\ settle[CurSite] = "resolved"
    /\ allFloorPlans' = allFloorPlans \o ret[CurSite]
    /\ scrapingResults' = Append(scrapingResults,
          [success |-> TRUE, source |-> PropertyName(CurSite),
           floorPlans |-> ret[CurSite], errors |-> <<>>])
    /\ Advance
    /\ UNCHANGED <<entry, calls, dailyReport, exitCode, topLevelError,
                   pricesFile, scraperVars, aggVars, parseVars, otherVars>>

\* (variant: no inner catch, the rejection reaches main's outer catch)
MainRethrow ==
    /\ entry = "index" /\ pc = "await"
    /\ settle[CurSite] = "rejected"
    /\ topLevelError' = TRUE /\ exitCode' = 1 /\ pc' = "done"
    /\ UNCHANGED <<entry, cur, calls, allFloorPlans, scrapingResults,
                   dailyReport, pricesFile, scraperVars, aggVars, parseVars, otherVars>>
\* the catch of one try block after the awaited scraper rejected
MainAwaitRejected ==
    /\ entry = "index" /\ pc = "await"
    /\ settle[CurSite] = "rejected"
    /\ scrapingResults' = Append(scrapingResults,
          [success |-> FALSE, source |-> PropertyName(CurSite),
           floorPlans |-> <<>>, errors |-> <<"browser.close failed">>])
    /\ Advance
    /\ UNCHANGED <<entry, calls, allFloorPlans, dailyReport, exitCode,
                   topLevelError, pricesFile, scraperVars, aggVars, parseVars, otherVars>>

RECURSIVE PlansOf(_, _)
\* allFloorPlans.filter(fp => fp.propertyName === name)
PlansOf(name, fps) ==
    IF fps = <<>> THEN <<>>
    ELSE IF Head(fps).propertyName = name
         THEN <<Head(fps)>> \o PlansOf(name, Tail(fps))
         ELSE PlansOf(name, Tail(fps))

\* the summaries main builds: Camden's and Columns', each only when the
\* property has a floor plan
PropertySummaries(fps) ==
    LET camdenPlans  == PlansOf("Camden Dunwoody", fps)
        columnsPlans == PlansOf("The Columns at Lake Ridge", fps)
    IN (IF camdenPlans # <<>>
        THEN <<createPropertySummary("Camden Dunwoody", camdenPlans)>>
        ELSE <<>>)
       \o
       (IF columnsPlans # <<>>
        THEN <<createPropertySummary("The Columns at Lake Ridge", columnsPlans)>>
        ELSE <<>>)

\* (variant: no early return; createDailyReport's reduce throws on the
\* empty list and main's outer catch exits with code 1)
MainAggregateEmpty ==
    /\ entry = "index" /\ pc = "phase2"
    /\ allFloorPlans = <<>>
    /\ topLevelError' = TRUE
    /\ pc' = "done" /\ exitCode' = 1
    /\ UNCHANGED <<entry, cur, calls, allFloorPlans, scrapingResults,
                   dailyReport, pricesFile, scraperVars, aggVars, parseVars,
                   otherVars>>
\* Phase 2 with no floor plan: log and return
MainNoFloorPlans ==
    /\ entry = "index" /\ pc = "phase2"
    /\ allFloorPlans = <<>>
    /\ pc' = "done" /\ exitCode' = 0
    /\ UNCHANGED <<entry, cur, calls, allFloorPlans, scrapingResults,
                   dailyReport, topLevelError, pricesFile, scraperVars,
                   aggVars, parseVars, otherVars>>

\* Phases 2 and 3: summaries, daily report, rendering to the console; main
\* returns and the process ends with code 0
MainReport ==
    /\ entry = "index" /\ pc = "phase2"
    /\ allFloorPlans # <<>>
    /\ dailyReport' = createDailyReport(PropertySummaries(allFloorPlans),
                                        allFloorPlans, today)
    /\ pc' = "done" /\ exitCode' = 0
    /\ UNCHANGED <<entry, cur, calls, allFloorPlans, scrapingResults,
                   topLevelError, pricesFile, scraperVars, aggVars, parseVars, otherVars>>

\* the index.ts that runs scrapePerimeter alone: done once it resolved
MainPerimeterDone ==
    /\ entry = "indexPerimeter" /\ pc = "await"
    /\ settle["perimeter"] = "resolved"
    /\ pc' = "done" /\ exitCode' = 0
    /\ UNCHANGED <<entry, cur, calls, allFloorPlans, scrapingResults,
                   dailyReport, topLevelError, pricesFile, scraperVars,
                   aggVars, parseVars, otherVars>>

\* ... and its outer catch when scrapePerimeter rejected: process.exit(1)
MainPerimeterError ==
    /\ entry = "indexPerimeter" /\ pc = "await"
    /\ settle["perimeter"] = "rejected"
    /\ topLevelError' = TRUE
    /\ pc' = "done" /\ exitCode' = 1
    /\ UNCHANGED <<entry, cur, calls, allFloorPlans, scrapingResults,
                   dailyReport, pricesFile, scraperVars, aggVars, parseVars, otherVars>>

Next ==
    \/ MainCallScraper
    \/ MainAwaitResolved
    \/ MainAwaitRejected
    \/ MainNoFloorPlans
    \/ MainReport
    \/ MainPerimeterDone
    \/ MainPerimeterError
    \/ \E s \in AllScrapers : ScraperStep(s)

Spec == Init /\ [][Next]_vars

\* --------------------------------------------------------- ReportGenerator
\* What the two report functions list, and what they leave of the arrays
\* they are given.  The rendered text itself is not modelled, only the order
\* in which the floor plans and the properties appear in it.
PropertyNames == {"Camden Dunwoody", "The Columns at Lake Ridge", "Drift Dunwoody"}

RECURSIVE FirstNames(_, _)
\* the keys of floorPlansByProperty in insertion order: the property names
\* in the order of their first plan
FirstNames(fps, seen) ==
    IF fps = <<>> THEN <<>>
    ELSE IF Head(fps).propertyName \in seen THEN FirstNames(Tail(fps), seen)
    ELSE <<Head(fps).propertyName>>
             \o FirstNames(Tail(fps), seen \cup {Head(fps).propertyName})

\* the reduce of generateDailyReport: a new array for each property, filled
\* in list order
floorPlansByProperty(fps) ==
    LET names == FirstNames(fps, {})
    IN [i \in 1..Len(names) |->
           [propertyName |-> names[i], floorPlans |-> PlansOf(names[i], fps)]]

\* the groups as they are listed: each one sorted by price before its plans
\* are rendered
DetailedListing(fps) ==
    LET groups == floorPlansByProperty(fps)
    IN [i \in 1..Len(groups) |->
           [propertyName |-> groups[i].propertyName,
            floorPlans   |-> SortByPrice(groups[i].floorPlans)]]

\* (variant: generateDailyReport sorting report.allFloorPlans itself)
AllFloorPlansSortedInPlace(fps) == SortByPrice(fps)
\* report.allFloorPlans after generateDailyReport: reduce only reads it, and
\* the arrays that sort changes in place are the groups built by the reduce
AllFloorPlansAfterDailyReport(fps) == fps

\* a.avgPricePerSqFt - b.avgPricePerSqFt < 0; a difference with NaN is NaN,
\* which sort takes for 0
AvgLess(a, b) ==
    /\ a.avgPricePerSqFt # NaN /\ b.avgPricePerSqFt # NaN
    /\ a.avgPricePerSqFt < b.avgPricePerSqFt

RECURSIVE InsertByAvg(_, _)
InsertByAvg(prop, sorted) ==
    IF sorted = <<>> THEN <<prop>>
    ELSE IF AvgLess(prop, Head(sorted)) THEN <<prop>> \o sorted
    ELSE <<Head(sorted)>> \o InsertByAvg(prop, Tail(sorted))

RECURSIVE Rankings(_)
\* sortedProps: [...properties].sort(...), a stable sort of a copy.  main
\* hands over at most two summaries, for which the comparison is consistent
\* also when an average is NaN.
Rankings(ps) ==
    IF ps = <<>> THEN <<>>
    ELSE InsertByAvg(ps[Len(ps)], Rankings(SubSeq(ps, 1, Len(ps) - 1)))

\* the properties array after generateComparisonReport: the sort works on
\* the copy [...properties], forEach only reads
PropertiesAfterComparison(ps) == ps

\* the lists main can hand over: plans of the three properties, each with
\* a price and the pricePerSqFt that goes with it, and the summaries main
\* builds of them
RenderList(k, f) ==
    [i \in 1..k |-> FloorPlan(i, f[i][2], 1, f[i][2], 1, "Available", f[i][1])]

InitRender ==
    /\ InitRunIdle /\ InitParseIdle /\ InitFieldsIdle /\ InitStoreIdle
    /\ InitPinsIdle /\ InitProbeIdle /\ InitServerIdle
    /\ \E k \in 1..MaxRenderLen :
          \E f \in [1..k -> PropertyNames \X (0..MaxRate)] :
             aggInput = RenderList(k, f)
    /\ aggInput0 = aggInput
    /\ properties = PropertySummaries(aggInput)
    /\ properties0 = properties
    /\ today = 0
    /\ summary1 = NoSummary /\ summary2 = NoSummary
    /\ report1 = NoReport /\ report2 = NoReport
    /\ listing = <<>> /\ ranking = <<>>
    /\ aggPc = "built"

RenderIdleVars == <<runVars, scraperVars, parseVars, fieldVars, storeVars,
                    pinVars, probeVars, serverVars>>

\* ReportGenerator.generateDailyReport(dailyReport)
GenerateDailyReportCall ==
    /\ aggPc = "built"
    /\ listing' = DetailedListing(aggInput)
    /\ aggInput' = AllFloorPlansAfterDailyReport(aggInput)
    /\ aggPc' = "daily"
    /\ UNCHANGED <<aggInput0, today, summary1, summary2, report1, report2,
                   properties, properties0, ranking, RenderIdleVars>>

\* ReportGenerator.generateComparisonReport(propertySummaries), which main
\* calls when there is more than one summary
GenerateComparisonReportCall ==
    /\ aggPc = "daily"
    /\ Len(properties) > 1
    /\ ranking' = Rankings(properties)
    /\ properties' = PropertiesAfterComparison(properties)
    /\ aggPc' = "compared"
    /\ UNCHANGED <<aggInput, aggInput0, today, summary1, summary2, report1,
                   report2, properties0, listing, RenderIdleVars>>

NextRender == GenerateDailyReportCall \/ GenerateComparisonReportCall

SpecRender == InitRender /\ [][NextRender]_vars

\* ------------------------------------------------- ReportGenerator: claims
\* t holds the elements of s, each once
IsPermutation(s, t) ==
    /\ Len(s) = Len(t)
    /\ \E q \in [1..Len(s) -> 1..Len(s)] :
          /\ \A i, j \in 1..Len(s) : q[i] = q[j] => i = j
          /\ \A i \in 1..Len(s) : t[q[i]] = s[i]

\* C22: generateDailyReport lists the floor plans of each property in
\* ascending price order, generateComparisonReport ranks the properties in
\* ascending avgPricePerSqFt, and after either call the report's
\* allFloorPlans and the properties list handed over are what they were,
\* in order and contents.
C22_RenderingOrderedNoSideEffect ==
    /\ aggPc \in {"daily", "compared"} =>
          /\ \A g \in 1..Len(listing) :
                LET fps == listing[g].floorPlans
                IN /\ \A i, j \in 1..Len(fps) :
                         i < j => fps[i].price <= fps[j].price
                   /\ IsPermutation(
                         PlansOf(listing[g].propertyName, aggInput0), fps)
          /\ {listing[g].propertyName : g \in 1..Len(listing)}
                = {aggInput0[i].propertyName : i \in 1..Len(aggInput0)}
          /\ aggInput = aggInput0
          /\ properties = properties0
    /\ aggPc = "compared" =>
          /\ IsPermutation(properties0, ranking)
          /\ \A i, j \in 1..Len(ranking) :
                i < j => ~AvgLess(ranking[j], ranking[i])

\* both reports were rendered of a list whose Camden plans stand in
\* descending price order and whose first summary has the greater average:
\* the listing and the ranking reverse them, the lists handed over do not
C22_Witness ==
    /\ aggPc = "compared"
    /\ Len(aggInput0) = 3
    /\ aggInput0[1].propertyName = "Camden Dunwoody" /\ aggInput0[1].price = 2
    /\ aggInput0[2].propertyName = "The Columns at Lake Ridge"
    /\ aggInput0[2].price = 1
    /\ aggInput0[3].propertyName = "Camden Dunwoody" /\ aggInput0[3].price = 1
    /\ listing[1].floorPlans[1].name = 3 /\ listing[1].floorPlans[2].name = 1
    /\ properties0[1].propertyName = "Camden Dunwoody"
    /\ ranking[1].propertyName = "The Columns at Lake Ridge"
    /\ aggInput = aggInput0 /\ properties = properties0

\* ------------------------------------------------------- the run: claims
MainSites == {"camden", "columns", "drift"}

\* C1: scrapeCamden, scrapeColumns and scrapeDrift never reject, whatever
\* browser operations fail (launch, newPage, goto, waits, extraction,
\* close); after an error the scraper resolves to an empty list.
C1_ScrapersNeverReject ==
    \A s \in MainSites :
        /\ settle[s] # "rejected"
        /\ (settle[s] = "resolved" /\ caught[s] # "none") => ret[s] = <<>>

RECURSIVE IsPrefix(_, _)
IsPrefix(a, b) ==
    \/ a = <<>>
    \/ b # <<>> /\ Head(a) = Head(b) /\ IsPrefix(Tail(a), Tail(b))

\* C4: in a run of main the three scrapers are each invoked exactly once,
\* in the order Camden, Columns, Drift, whatever the earlier ones returned
\* or threw; the run completes with exit code 0; exit code 1 only follows an
\* error that reached main's top-level handler.
C4_AllScrapersOnceInOrder ==
    /\ entry = "index" =>
          /\ IsPrefix(calls, SiteOrder)
          /\ pc = "done" => (calls = SiteOrder /\ exitCode = 0)
          /\ Len(scrapingResults) = (IF pc \in {"phase2", "done"} THEN 3
                                     ELSE cur - 1)
    /\ exitCode = 1 => topLevelError
    /\ exitCode # -1 <=> pc = "done"

\* a run completed with code 0 after one scraper rejected, one returned an
\* empty list and one returned data
C4_Witness ==
    /\ entry = "index" /\ pc = "done" /\ exitCode = 0
    /\ settle["camden"] = "rejected"
    /\ settle["columns"] = "resolved" /\ ret["columns"] = <<>>
    /\ settle["drift"] = "resolved" /\ ret["drift"] # <<>>
    /\ calls = SiteOrder

\* C5: a run of main that collected at least one floor plan has written its
\* DailyReport to data/prices.json, replacing the previous run's file,
\* before it finishes.
C5_ReportPersisted ==
    (entry = "index" /\ pc = "done" /\ allFloorPlans # <<>>) =>
        /\ dailyReport # NoReport
        /\ pricesFile = dailyReport

\* the report holds a summary of the property with no floor plan
HasEmptySummary(report, name) ==
    \E i \in 1..Len(report.properties) :
        /\ report.properties[i].propertyName = name
        /\ report.properties[i].totalFloorPlans = 0

\* C17: when a site's scraper yielded no floor plan in a run, after an
\* error or because the page lists none, the run's report holds a
\* PropertySummary of that property with totalFloorPlans = 0.
C17_EmptySiteHasSummary ==
    (entry = "index" /\ pc = "done") =>
        \A s \in MainSites :
            (settle[s] = "resolved" /\ ret[s] = <<>>) =>
                /\ dailyReport # NoReport
                /\ HasEmptySummary(dailyReport, PropertyName(s))

\* position of a site in main's sequence of try blocks
SiteIndex(s) == CHOOSE i \in 1..Len(SiteOrder) : SiteOrder[i] = s

\* C18: a scraper whose extraction failed with an error and one whose page
\* had no floor plan both return the empty list, and the ScrapingResult
\* main records is the same in both: it is made of the returned list
\* alone, with success true and no errors; only the log tells them apart.
C18_ErrorAndEmptyAlike ==
    \A s \in MainSites :
        /\ (settle[s] = "resolved" /\ caught[s] # "none") => ret[s] = <<>>
        /\ (settle[s] = "resolved" /\ SiteIndex(s) <= Len(scrapingResults)) =>
              scrapingResults[SiteIndex(s)] =
                  [success |-> TRUE, source |-> PropertyName(s),
                   floorPlans |-> ret[s], errors |-> <<>>]

\* main recorded the results of a scraper whose extraction threw and of
\* one whose page had no floor plan: they differ in the source alone
C18_Witness ==
    /\ Len(scrapingResults) >= 2
    /\ settle["camden"] = "resolved" /\ caught["camden"] = "extract"
    /\ settle["columns"] = "resolved" /\ caught["columns"] = "none"
    /\ ret["camden"] = <<>> /\ ret["columns"] = <<>>
    /\ [scrapingResults[1] EXCEPT !.source = ""]
           = [scrapingResults[2] EXCEPT !.source = ""]
    /\ allFloorPlans = <<>>

\* the model's availability values as the texts they stand for
AvailabilityText(a) ==
    CASE a = "Available" -> WordAvailable
      [] a = "Available Now" -> AvailableNow
      [] a = "Contact for Availability" -> ContactForAvailability

\* C23: every FloorPlan returned by scrapeCamden, scrapeColumns or
\* scrapeDrift carries a normalized availability, a text that
\* standardizeAvailability maps to itself.
C23_AvailabilityNormalized ==
    \A s \in MainSites :
        settle[s] = "resolved" =>
            \A i \in 1..Len(ret[s]) :
                LET t == AvailabilityText(ret[s][i].availability)
                IN standardizeAvailability(t) = t

RECURSIVE SumTotalFloorPlans(_)
SumTotalFloorPlans(props) ==
    IF props = <<>> THEN 0
    ELSE Head(props).totalFloorPlans + SumTotalFloorPlans(Tail(props))

\* C24: in every DailyReport main builds each propertyName occurring in
\* allFloorPlans has exactly one PropertySummary in properties, and the
\* totalFloorPlans of the properties add up to marketSummary.totalUnits,
\* the length of allFloorPlans.
C24_SummariesCoverAllPlans ==
    (entry = "index" /\ dailyReport # NoReport) =>
        LET fps   == dailyReport.allFloorPlans
            props == dailyReport.properties
        IN /\ \A i \in 1..Len(fps) :
                 Cardinality({j \in 1..Len(props) :
                     props[j].propertyName = fps[i].propertyName}) = 1
           /\ dailyReport.marketSummary.totalUnits = Len(fps)
           /\ SumTotalFloorPlans(props) = dailyReport.marketSummary.totalUnits

\* C25: main never calls createDailyReport with an empty list: a report
\* that was built holds at least one floor plan, and a run in which all
\* three scrapers yielded no floor plan returns before the aggregation,
\* with no report and without exit code 1.
C25_NoReportOfEmptyList ==
    entry = "index" =>
        /\ dailyReport # NoReport => dailyReport.allFloorPlans # <<>>
        /\ (pc = "done" /\ allFloorPlans = <<>>) =>
              /\ dailyReport = NoReport
              /\ exitCode = 0
              /\ ~topLevelError

\* a run ended in which one scraper rejected, one caught an error and one
\* found no card: no report, exit code 0
C25_Witness ==
    /\ entry = "index" /\ pc = "done"
    /\ settle["camden"] = "rejected"
    /\ settle["columns"] = "resolved" /\ caught["columns"] # "none"
    /\ settle["drift"] = "resolved" /\ caught["drift"] = "none"
    /\ allFloorPlans = <<>>
    /\ dailyReport = NoReport /\ exitCode = 0

\* C26: every FloorPlan a scraper returns has pricePerSqFt =
\* calculatePricePerSqFt(price, squareFootage), 0 when the price or the
\* square footage is not positive, although Columns and Drift compute it
\* inline.
C26_InlineEqualsCalculate ==
    \A s \in MainSites :
        settle[s] = "resolved" =>
            \A i \in 1..Len(ret[s]) :
                ret[s][i].pricePerSqFt =
                    Cents(calculatePricePerSqFt(Whole(ret[s][i].price),
                                                ret[s][i].squareFootage))

\* Columns returned a plan with a price and a square footage, Drift one
\* with a square footage and no price, Camden one with a price and no
\* square footage
C26_Witness ==
    /\ settle["camden"] = "resolved" /\ Len(ret["camden"]) = 1
    /\ ret["camden"][1].price > 0 /\ ret["camden"][1].squareFootage = 0
    /\ ret["camden"][1].pricePerSqFt = 0
    /\ settle["columns"] = "resolved" /\ Len(ret["columns"]) = 1
    /\ ret["columns"][1].price > 0 /\ ret["columns"][1].squareFootage > 0
    /\ ret["columns"][1].pricePerSqFt > 0
    /\ settle["drift"] = "resolved" /\ Len(ret["drift"]) = 1
    /\ ret["drift"][1].price = 0 /\ ret["drift"][1].squareFootage > 0
    /\ ret["drift"][1].pricePerSqFt = 0

\* ------------------------------------------- the scrapers: selector probing
\* extractColumnsFloorPlans and extractDriftFloorPlans.  matches[i] is the
\* number of elements the page holds for possibleSelectors[i]; matches[0] is
\* the number for the price pattern text=/\$\d+/ that Drift falls back to.
\* A record is written down with the selector and the element it was read
\* of; usedSelector 0 stands for ''.
MaxPriceElements == 10

InitProbe ==
    /\ InitRunIdle /\ InitAggIdle /\ InitParseIdle /\ InitFieldsIdle
    /\ InitStoreIdle /\ InitPinsIdle /\ InitRenderIdle /\ InitServerIdle
    /\ probeSite \in {"columns", "drift"}
    /\ matches \in [0..MaxSelectors -> 0..MaxMatches]
    /\ probePc = "probe"
    /\ queried = <<>>
    /\ usedSelector = 0
    /\ elemIndex = 0
    /\ records = <<>>
    /\ probeRet = NotReturned

ProbeIdleVars == <<runVars, scraperVars, aggVars, parseVars, fieldVars,
                   storeVars, pinVars, renderVars, serverVars>>

\* the selector the for-of loop is at
NextSelector == Len(queried) + 1

\* floor plans one element can give: the Columns extractor returns a plan or
\* null, the Drift extractor an array
ElementPlans(site) == IF site = "columns" THEN 0..1 ELSE 0..MaxElementPlans

\* n records read of element e found by selector sel
RecordsOf(sel, e, n) == [i \in 1..n |-> [selector |-> sel, element |-> e]]

\* page.locator(selector).all() finds nothing: on to the next selector
ProbeNoMatch ==
    /\ probePc = "probe"
    /\ NextSelector <= MaxSelectors
    /\ matches[NextSelector] = 0
    /\ queried' = Append(queried, NextSelector)
    /\ UNCHANGED <<probeSite, matches, probePc, usedSelector, elemIndex,
                   records, probeRet, ProbeIdleVars>>

\* (variant: the loop without its break, the last matching selector wins)
ProbeMatchNoBreak ==
    /\ probePc = "probe"
    /\ NextSelector <= MaxSelectors
    /\ matches[NextSelector] > 0
    /\ queried' = Append(queried, NextSelector)
    /\ usedSelector' = NextSelector
    /\ probePc' = IF NextSelector = MaxSelectors THEN "elements" ELSE "probe"
    /\ UNCHANGED <<probeSite, matches, elemIndex, records, probeRet,
                   ProbeIdleVars>>

\* elements.length > 0: the elements and the selector are kept, break
ProbeMatch ==
    /\ probePc = "probe"
    /\ NextSelector <= MaxSelectors
    /\ matches[NextSelector] > 0
    /\ queried' = Append(queried, NextSelector)
    /\ usedSelector' = NextSelector
    /\ probePc' = "elements"
    /\ UNCHANGED <<probeSite, matches, elemIndex, records, probeRet,
                   ProbeIdleVars>>

\* floorPlanElements.length === 0 in extractColumnsFloorPlans: return []
NoElementsColumns ==
    /\ probePc = "probe"
    /\ NextSelector > MaxSelectors
    /\ usedSelector = 0
    /\ probeSite = "columns"
    /\ probeRet' = <<>>
    /\ probePc' = "done"
    /\ UNCHANGED <<probeSite, matches, queried, usedSelector, elemIndex,
                   records, ProbeIdleVars>>

\* floorPlanElements.length === 0 in extractDriftFloorPlans: the elements
\* holding a price pattern are looked up
NoElementsDrift ==
    /\ probePc = "probe"
    /\ NextSelector > MaxSelectors
    /\ usedSelector = 0
    /\ probeSite = "drift"
    /\ probePc' = "fallback"
    /\ UNCHANGED <<probeSite, matches, queried, usedSelector, elemIndex,
                   records, probeRet, ProbeIdleVars>>

\* the priceElements loop runs over Math.min(priceElements.length, 10)
PriceElements ==
    IF matches[0] < MaxPriceElements THEN matches[0] ELSE MaxPriceElements

\* one round of the priceElements loop.  The Drift extractor catches its own
\* errors and returns [], so the catch of this loop is never entered.
FallbackElement ==
    /\ probePc = "fallback"
    /\ elemIndex < PriceElements
    /\ \E n \in ElementPlans(probeSite) :
          records' = records \o RecordsOf(0, elemIndex + 1, n)
    /\ elemIndex' = elemIndex + 1
    /\ UNCHANGED <<probeSite, matches, probePc, queried, usedSelector,
                   probeRet, ProbeIdleVars>>

\* return floorPlans at the end of the floorPlanElements.length === 0 branch
FallbackReturn ==
    /\ probePc = "fallback"
    /\ elemIndex = PriceElements
    /\ probeRet' = records
    /\ probePc' = "done"
    /\ UNCHANGED <<probeSite, matches, queried, usedSelector, elemIndex,
                   records, ProbeIdleVars>>

\* one round of the floorPlanElements loop: what the extractor returns of
\* the element is pushed
ElementRecord ==
    /\ probePc = "elements"
    /\ elemIndex < matches[usedSelector]
    /\ \E n \in ElementPlans(probeSite) :
          records' = records \o RecordsOf(usedSelector, elemIndex + 1, n)
    /\ elemIndex' = elemIndex + 1
    /\ UNCHANGED <<probeSite, matches, probePc, queried, usedSelector,
                   probeRet, ProbeIdleVars>>

\* one round of the floorPlanElements loop that throws: caught, logged, on
\* to the next element
ElementError ==
    /\ probePc = "elements"
    /\ elemIndex < matches[usedSelector]
    /\ elemIndex' = elemIndex + 1
    /\ UNCHANGED <<probeSite, matches, probePc, queried, usedSelector,
                   records, probeRet, ProbeIdleVars>>

\* return floorPlans after the floorPlanElements loop
ReturnFloorPlans ==
    /\ probePc = "elements"
    /\ elemIndex = matches[usedSelector]
    /\ probeRet' = records
    /\ probePc' = "done"
    /\ UNCHANGED <<probeSite, matches, queried, usedSelector, elemIndex,
                   records, ProbeIdleVars>>

\* an await outside the element loops rejects (locator(...).all(),
\* page.evaluate): the catch of the function returns []
ExtractCatch ==
    /\ \/ probePc = "probe"
       \/ probePc = "fallback" /\ elemIndex = 0
    /\ probeRet' = <<>>
    /\ probePc' = "done"
    /\ UNCHANGED <<probeSite, matches, queried, usedSelector, elemIndex,
                   records, ProbeIdleVars>>

NextProbe ==
    \/ ProbeNoMatch
    \/ ProbeMatch
    \/ NoElementsColumns
    \/ NoElementsDrift
    \/ FallbackElement
    \/ FallbackReturn
    \/ ElementRecord
    \/ ElementError
    \/ ReturnFloorPlans
    \/ ExtractCatch

SpecProbe == InitProbe /\ [][NextProbe]_vars

\* -------------------------------------------------- selector probing: claims
\* C21: the selectors are queried in list order; once a selector has matched,
\* it is the first one of the list with a match, no later selector is
\* queried, every record comes of one of its elements, and the function
\* returns after every one of its elements has been processed; the records
\* of a run never come of two different selectors.
C21_FirstMatchingSelectorOnly ==
    /\ queried = [i \in 1..Len(queried) |-> i]
    /\ usedSelector = 0 =>
          \A i \in 1..Len(queried) : matches[i] = 0
    /\ usedSelector # 0 =>
          /\ matches[usedSelector] > 0
          /\ \A i \in 1..(usedSelector - 1) : matches[i] = 0
          /\ Len(queried) = usedSelector
          /\ \A i \in 1..Len(records) :
                /\ records[i].selector = usedSelector
                /\ records[i].element \in 1..matches[usedSelector]
          /\ probePc = "done" => elemIndex = matches[usedSelector]
    /\ \A i, j \in 1..Len(records) : records[i].selector = records[j].selector

\* the second selector matched two elements and a later one would have
\* matched too; both elements gave records and these were returned
C21_Witness ==
    /\ probePc = "done"
    /\ usedSelector = 2
    /\ matches[1] = 0 /\ matches[2] = 2 /\ matches[3] > 0
    /\ \E i, j \in 1..Len(records) :
          records[i].element = 1 /\ records[j].element = 2
    /\ probeRet = records

\* ------------------------------------------------------------- the server
\* server.ts: the request handler of http.createServer.  cycle[r] is the
\* place of the run of main that request r started ("none": r started no
\* run), responses[r] the status codes written for r, serverUp whether the
\* process is alive.  Phases 2 and 3 of main hold no await: they run in one
\* piece once scrapeDrift has settled.
Requests == 1..MaxRequests

\* the places at which a run of main waits for a scraper, whose browser
\* session is open meanwhile
InProgress == {"camden", "columns", "drift"}

InitServer ==
    /\ InitRunIdle /\ InitAggIdle /\ InitParseIdle /\ InitFieldsIdle
    /\ InitStoreIdle /\ InitPinsIdle /\ InitRenderIdle /\ InitProbeIdle
    /\ serverUp = TRUE
    /\ cycle = [r \in Requests |-> "none"]
    /\ responses = [r \in Requests |-> <<>>]

ServerIdleVars == <<runVars, scraperVars, aggVars, parseVars, fieldVars,
                    storeVars, pinVars, renderVars, probeVars>>

\* request r has not arrived yet
Unseen(r) == cycle[r] = "none" /\ responses[r] = <<>>

\* POST /scrape: the handler calls main(), which runs up to the await of
\* scrapeCamden; nothing tells the handler whether another run is under way
ScrapeRequest(r) ==
    /\ serverUp /\ Unseen(r)
    /\ cycle' = [cycle EXCEPT ![r] = "camden"]
    /\ UNCHANGED <<serverUp, responses, ServerIdleVars>>

\* GET /health
HealthRequest(r) ==
    /\ serverUp /\ Unseen(r)
    /\ responses' = [responses EXCEPT ![r] = <<200>>]
    /\ UNCHANGED <<serverUp, cycle, ServerIdleVars>>

\* any other request
NotFoundRequest(r) ==
    /\ serverUp /\ Unseen(r)
    /\ responses' = [responses EXCEPT ![r] = <<404>>]
    /\ UNCHANGED <<serverUp, cycle, ServerIdleVars>>

\* scrapeCamden or scrapeColumns settled; resolved or rejected, the try
\* block or its catch records the result and main calls the next scraper
ScraperSettled(r) ==
    /\ serverUp
    /\ cycle[r] \in {"camden", "columns"}
    /\ cycle' = [cycle EXCEPT
                    ![r] = IF cycle[r] = "camden" THEN "columns" ELSE "drift"]
    /\ UNCHANGED <<serverUp, responses, ServerIdleVars>>

\* scrapeDrift settled and Phases 2 and 3 went through (or main returned
\* for want of floor plans): main resolves, the handler writes 200
MainCompleted(r) ==
    /\ serverUp
    /\ cycle[r] = "drift"
    /\ cycle' = [cycle EXCEPT ![r] = "completed"]
    /\ responses' = [responses EXCEPT ![r] = Append(responses[r], 200)]
    /\ UNCHANGED <<serverUp, ServerIdleVars>>

\* scrapeDrift settled and an error was thrown in Phases 2 and 3, outside
\* the three inner try blocks: the top-level catch of main logs it and calls
\* process.exit(1).  main never rejects, so the catch of the handler, which
\* would write 500, is not entered.
MainTopLevelCatch(r) ==
    /\ serverUp
    /\ cycle[r] = "drift"
    /\ cycle' = [cycle EXCEPT ![r] = "failed"]
    /\ serverUp' = FALSE
    /\ UNCHANGED <<responses, ServerIdleVars>>

NextServer ==
    \/ \E r \in Requests : ScrapeRequest(r)
    \/ \E r \in Requests : HealthRequest(r)
    \/ \E r \in Requests : NotFoundRequest(r)
    \/ \E r \in Requests : ScraperSettled(r)
    \/ \E r \in Requests : MainCompleted(r)
    \/ \E r \in Requests : MainTopLevelCatch(r)

SpecServer == InitServer /\ [][NextServer]_vars

\* ------------------------------------------------------ the server: claims
\* C28: a POST /scrape never has more than one response, the response is 200
\* when its run of main completed and 500 when it failed, and a failed run
\* leaves the server process alive.
C28_ScrapeAnsweredServerAlive ==
    /\ serverUp
    /\ \A r \in Requests :
          /\ Len(responses[r]) <= 1
          /\ cycle[r] = "completed" => responses[r] = <<200>>
          /\ cycle[r] = "failed" => responses[r] = <<500>>

\* C29: at no time do two requests have a run of main in progress.
C29_OneCycleAtATime ==
    \A r1, r2 \in Requests :
       cycle[r1] \in InProgress /\ cycle[r2] \in InProgress => r1 = r2

====
